---- MODULE Spec2Model ----
(***************************************************************************)
(* Image-to-pattern pipeline of needle_designer (src-tauri/src/lib.rs and  *)
(* src-tauri/src/threads/color_matching.rs): median-cut quantization,      *)
(* dithering, thread matching and the pixel-id grid.                       *)
(*                                                                         *)
(* A pixel is <<r, g, b, a>>, a raster is the row-major sequence of its    *)
(* pixels, coordinates and palette indices are 0-based as in the source.   *)
(***************************************************************************)
EXTENDS Integers, Sequences, FiniteSets, TLC

VARIABLES
    entry,                \* the command that runs: process_image or process_image_with_threads
    target_width,         \* argument target_width
    target_height,        \* argument target_height
    max_colors,           \* argument max_colors
    remove_background,    \* argument remove_background
    background_threshold, \* argument background_threshold
    rgba,                 \* the resized input raster (lib.rs:440)
    pc,                   \* position of the call
    qpixels,              \* quantize_colors: the collected pixels (lib.rs:1289)
    buckets,              \* median_cut: the buckets (lib.rs:1322)
    palette,              \* the palette returned by quantize_colors
    quantized,            \* the raster returned by quantize_colors
    dither_mode,          \* argument dither_mode
    dither,               \* the DitherMode it decodes to
    result,               \* the raster a dither pass works on (lib.rs:1404)
    errors,               \* the pending error map (lib.rs:1405), in sixteenths
    pos,                  \* row-major position of the scan: y * width + x
    corrected,            \* the last pixel after its error was applied (lib.rs:1418)
    new_color,            \* the palette color chosen for it (lib.rs:1427)
    dithered,             \* the raster returned by apply_dithering
    thread_brand,         \* argument thread_brand
    color_match_algorithm,\* argument color_match_algorithm
    brand,                \* the ThreadBrand it decodes to
    algorithm,            \* the ColorMatchAlgorithm it decodes to
    colors,               \* the returned color list (colors / matched_colors)
    color_id_map,         \* palette index -> matched color id (lib.rs:600)
    palette_cache,        \* RGB -> color id (lib.rs:473, 639)
    pixels,               \* the returned grid: pixels[y + 1][x + 1]
    preview,              \* the raster encoded into preview_base64
    failure,              \* the Err(String) the command returns, "" when none
    color_a,              \* threads::color_matching::color_distance: argument c1
    color_b,              \* argument c2
    metric,               \* argument algorithm
    measured,             \* the distance it returns
    found_idx,          \* find_closest_color on its own: the index it returns
    license_file,         \* license-state.json: the saved LicenseState, None when absent
    LICENSE_STATE_CACHE,  \* licensing/storage.rs:10
    utc_now,              \* the clock read by Utc::now(), in days
    command,              \* the licensing command that ran last
    state,                \* its local `state` when it returned
    returned              \* the Result it returned

inputs == <<entry, target_width, target_height, max_colors, remove_background,
            background_threshold, rgba>>
quantizeVars == <<qpixels, buckets, palette, quantized>>
ditherVars == <<dither_mode, dither, result, errors, pos, corrected, new_color, dithered>>

matchVars == <<thread_brand, color_match_algorithm, brand, algorithm, colors, color_id_map>>
outputVars == <<palette_cache, pixels, preview, failure>>

metricVars == <<color_a, color_b, metric, measured, found_idx>>

licenseVars == <<license_file, LICENSE_STATE_CACHE, utc_now, command, state, returned>>

vars == <<inputs, pc, quantizeVars, ditherVars, matchVars, outputVars, metricVars,
          licenseVars>>

----------------------------------------------------------------------------
(* Bounds of the model *)

MaxWidth == 2
MaxHeight == 2
MaxColors == 3
DitherWidth == 4
DitherHeight == 3

----------------------------------------------------------------------------
(* Pixel values the input rasters are built from *)

Transparent == <<0, 0, 0, 0>>
White == <<255, 255, 255, 255>>
ColorA == <<55, 58, 60, 255>>
ColorB == <<58, 55, 80, 255>>

PixelValues == {Transparent, White, ColorA, ColorB}

\* background_threshold values tried with remove_background = TRUE
Thresholds == {10, 200}

\* The rasters of n pixels over a set of values: one base value, with at
\* most one position that holds another value (p = 0: none); the empty
\* raster when n = 0
Rasters(values, n) ==
    { [i \in 1..n |-> IF i = p THEN c ELSE base] :
        base \in values, c \in values, p \in 0..n }

----------------------------------------------------------------------------
(* lib.rs helpers *)

is_transparent(pixel) == pixel[4] < 128

is_background(pixel, threshold) ==
    /\ pixel[1] > 255 - threshold
    /\ pixel[2] > 255 - threshold
    /\ pixel[3] > 255 - threshold

\* The source returns sqrt of this sum as f64.  The sum is an integer below
\* 2^18 and sqrt is strictly increasing on such integers in f64, so every
\* comparison of two distances is decided by the sums; the model keeps the sum.
color_distance(c1, c2) ==
    LET dr == c1[1] - c2[1]
        dg == c1[2] - c2[2]
        db == c1[3] - c2[3]
    IN dr * dr + dg * dg + db * db

\* f64::MAX as the initial minimum: above every distance
DistMax == 3 * 255 * 255 + 1

\* Variant of the loop that takes a later entry at the same distance ("<=" at
\* lib.rs:1272); ClosestColor fails on a tie.
RECURSIVE find_closest_color_loop_last(_, _, _, _, _)
find_closest_color_loop_last(pixel, pal, i, min_dist, closest) ==
    IF i >= Len(pal) THEN closest
    ELSE IF is_transparent(pal[i + 1])
         THEN find_closest_color_loop_last(pixel, pal, i + 1, min_dist, closest)
         ELSE LET dist == color_distance(pixel, pal[i + 1])
              IN IF dist <= min_dist
                 THEN find_closest_color_loop_last(pixel, pal, i + 1, dist, i)
                 ELSE find_closest_color_loop_last(pixel, pal, i + 1, min_dist, closest)

RECURSIVE find_closest_color_loop(_, _, _, _, _)
find_closest_color_loop(pixel, pal, i, min_dist, closest) ==
    IF i >= Len(pal) THEN closest
    ELSE IF is_transparent(pal[i + 1])
         THEN find_closest_color_loop(pixel, pal, i + 1, min_dist, closest)
         ELSE LET dist == color_distance(pixel, pal[i + 1])
              IN IF dist < min_dist
                 THEN find_closest_color_loop(pixel, pal, i + 1, dist, i)
                 ELSE find_closest_color_loop(pixel, pal, i + 1, min_dist, closest)

find_closest_color(pixel, pal) == find_closest_color_loop(pixel, pal, 0, DistMax, 0)

\* the pixels quantize_colors keeps (and the pixel assigner colours)
Eligible(pixel, rb, threshold) ==
    ~is_transparent(pixel) /\ ~(rb /\ is_background(pixel, threshold))

----------------------------------------------------------------------------
(* median_cut *)

RECURSIVE SeqMin(_, _, _)
SeqMin(bucket, channel, i) ==
    IF i = Len(bucket) THEN bucket[i][channel]
    ELSE LET m == SeqMin(bucket, channel, i + 1)
         IN IF bucket[i][channel] <= m THEN bucket[i][channel] ELSE m

RECURSIVE SeqMax(_, _, _)
SeqMax(bucket, channel, i) ==
    IF i = Len(bucket) THEN bucket[i][channel]
    ELSE LET m == SeqMax(bucket, channel, i + 1)
         IN IF bucket[i][channel] >= m THEN bucket[i][channel] ELSE m

ChannelRange(bucket, channel) == SeqMax(bucket, channel, 1) - SeqMin(bucket, channel, 1)

\* The scan of lib.rs:1326-1346 over (bucket i, channel), in that order.
\* k counts the pairs: bucket k \div 3 (0-based), channel k % 3.
\* best = <<max_range, max_bucket_idx, split_channel>>.
\* Variant of the scan that keeps the last pair of largest range (">=" at
\* lib.rs:1339); SplitRule fails on a tie.
RECURSIVE FindSplitLoopLast(_, _, _)
FindSplitLoopLast(bs, k, best) ==
    IF k >= 3 * Len(bs) THEN best
    ELSE LET i == k \div 3
             channel == k % 3
             bucket == bs[i + 1]
         IN IF Len(bucket) <= 1
            THEN FindSplitLoopLast(bs, k + 1, best)
            ELSE LET range == ChannelRange(bucket, channel + 1)
                 IN IF range >= best[1]
                    THEN FindSplitLoopLast(bs, k + 1, <<range, i, channel>>)
                    ELSE FindSplitLoopLast(bs, k + 1, best)

RECURSIVE FindSplitLoop(_, _, _)
FindSplitLoop(bs, k, best) ==
    IF k >= 3 * Len(bs) THEN best
    ELSE LET i == k \div 3
             channel == k % 3
             bucket == bs[i + 1]
         IN IF Len(bucket) <= 1
            THEN FindSplitLoop(bs, k + 1, best)
            ELSE LET range == ChannelRange(bucket, channel + 1)
                 IN IF range > best[1]
                    THEN FindSplitLoop(bs, k + 1, <<range, i, channel>>)
                    ELSE FindSplitLoop(bs, k + 1, best)

FindSplit(bs) == FindSplitLoop(bs, 0, <<0, 0, 0>>)

\* lib.rs:1348
SplitStops(bs) ==
    LET best == FindSplit(bs)
    IN best[1] = 0 \/ Len(bs[best[2] + 1]) <= 1

\* Variants of the loop condition of lib.rs:1324.  With "<=" the loop splits
\* once more and PaletteBound fails; with one bucket less the loop stops
\* before the pixels are separated and RoundTripFewPixels fails.
MedianCutContinuesInclusive(bs, mc) == Len(bs) <= mc /\ ~SplitStops(bs)
MedianCutContinuesShort(bs, mc) == Len(bs) + 1 < mc /\ ~SplitStops(bs)

\* lib.rs:1324 and 1348-1350: the loop goes on to split a bucket
MedianCutContinues(bs, mc) == Len(bs) < mc /\ ~SplitStops(bs)

\* Vec::remove
RemoveAt(s, i) == [j \in 1..(Len(s) - 1) |-> IF j <= i THEN s[j] ELSE s[j + 1]]

\* sort_by_key is a stable sort: insertion after the last element whose key
\* is not greater.
RECURSIVE InsertByKey(_, _, _)
InsertByKey(sorted, p, channel) ==
    IF sorted = <<>> THEN <<p>>
    ELSE IF sorted[Len(sorted)][channel] <= p[channel]
         THEN Append(sorted, p)
         ELSE Append(InsertByKey(SubSeq(sorted, 1, Len(sorted) - 1), p, channel),
                     sorted[Len(sorted)])

RECURSIVE SortByKeyLoop(_, _, _, _)
SortByKeyLoop(s, channel, i, sorted) ==
    IF i > Len(s) THEN sorted
    ELSE SortByKeyLoop(s, channel, i + 1, InsertByKey(sorted, s[i], channel))

sort_by_key(s, channel) == SortByKeyLoop(s, channel, 1, <<>>)

\* Variant of the split that leaves the pixel at the midpoint out of both
\* halves; PartitionInvariant fails.
SplitBucketDropsMid(bs) ==
    LET best == FindSplit(bs)
        rest == RemoveAt(bs, best[2])
        bucket == sort_by_key(bs[best[2] + 1], best[3] + 1)
        mid == Len(bucket) \div 2
        left == SubSeq(bucket, 1, mid)
        right == SubSeq(bucket, mid + 2, Len(bucket))
        withLeft == IF left # <<>> THEN Append(rest, left) ELSE rest
    IN IF right # <<>> THEN Append(withLeft, right) ELSE withLeft

\* lib.rs:1352-1364: one split
SplitBucket(bs) ==
    LET best == FindSplit(bs)
        rest == RemoveAt(bs, best[2])
        bucket == sort_by_key(bs[best[2] + 1], best[3] + 1)
        mid == Len(bucket) \div 2
        left == SubSeq(bucket, 1, mid)
        right == SubSeq(bucket, mid + 1, Len(bucket))
        withLeft == IF left # <<>> THEN Append(rest, left) ELSE rest
    IN IF right # <<>> THEN Append(withLeft, right) ELSE withLeft

RECURSIVE ChannelSum(_, _, _)
ChannelSum(bucket, channel, i) ==
    IF i > Len(bucket) THEN 0
    ELSE bucket[i][channel] + ChannelSum(bucket, channel, i + 1)

\* lib.rs:1371-1389
BucketAverage(bucket) ==
    LET count == Len(bucket)
    IN << ChannelSum(bucket, 1, 1) \div count,
          ChannelSum(bucket, 2, 1) \div count,
          ChannelSum(bucket, 3, 1) \div count,
          255 >>

\* lib.rs:1367-1390
Averages(bs) ==
    LET kept == SelectSeq(bs, LAMBDA b : b # <<>>)
    IN [i \in 1..Len(kept) |-> BucketAverage(kept[i])]

----------------------------------------------------------------------------
(* quantize_colors *)

\* lib.rs:1303-1312; defined when the palette is non-empty or no pixel is eligible
MapToPalette(img, pal, rb, threshold) ==
    [i \in 1..Len(img) |->
        IF ~Eligible(img[i], rb, threshold)
        THEN <<0, 0, 0, 0>>
        ELSE pal[find_closest_color(img[i], pal) + 1]]

\* palette[closest_idx] at lib.rs:1310 is out of bounds
MapPanics(img, pal, rb, threshold) ==
    \E i \in 1..Len(img) :
        /\ Eligible(img[i], rb, threshold)
        /\ find_closest_color(img[i], pal) >= Len(pal)

----------------------------------------------------------------------------
(* apply_dithering *)

DitherModeNames == {"none", "floyd-steinberg", "ordered", "atkinson", "stucki"}

\* lib.rs:447-452 and 562-567
ParseDitherMode(s) ==
    CASE s = "floyd-steinberg" -> "FloydSteinberg"
      [] s = "ordered" -> "Ordered"
      [] s = "atkinson" -> "Atkinson"
      [] OTHER -> "None"

\* Errors are multiples of 1/16 (Floyd-Steinberg) or of 1/8 (Atkinson) of
\* integers below 2^8, which f64 adds and multiplies exactly; the model keeps
\* them as integers counted in sixteenths.
ErrScale == 16

\* x.wrapping_sub(1) on u32.  u32::MAX itself is above the integers TLC
\* computes with; the largest of them stands for it (like u32::MAX, it is
\* not below any width).
U32Max == 2147483647
\* Variant of the subtraction that wraps within the row, to the last column;
\* ErrorsStayInside fails of it.
WrapsToLastColumn(x) == IF x = 0 THEN target_width - 1 ELSE x - 1

wrapping_sub_1(x) == IF x = 0 THEN U32Max ELSE x - 1

\* A variant of the neighbours with x.saturating_sub(1) for the wrapping
\* subtraction of lib.rs:1440: at x = 0 the lower-left share lands on the
\* pixel below, and DitherConservationInside fails of it.
FloydSteinbergDistributionsSaturating(x, y) ==
    << <<x + 1, y, 7>>,
       <<IF x = 0 THEN 0 ELSE x - 1, y + 1, 3>>,
       <<x, y + 1, 5>>,
       <<x + 1, y + 1, 1>> >>

\* lib.rs:1438-1443: <<nx, ny, sixteenths of the error>>
FloydSteinbergDistributions(x, y) ==
    << <<x + 1, y, 7>>,
       <<wrapping_sub_1(x), y + 1, 3>>,
       <<x, y + 1, 5>>,
       <<x + 1, y + 1, 1>> >>

\* lib.rs:1521-1535: every neighbour gets quant_error / 8.0, two sixteenths
AtkinsonDistributions(x, y) ==
    << <<x + 1, y, 2>>,
       <<x + 2, y, 2>>,
       <<wrapping_sub_1(x), y + 1, 2>>,
       <<x, y + 1, 2>>,
       <<x + 1, y + 1, 2>>,
       <<x, y + 2, 2>> >>

\* lib.rs:1446 and 1538
InBounds(nx, ny, width, height) == nx < width /\ ny < height

\* errors.entry((nx, ny)).or_insert([0.0; 3]) and the three additions
AddError(errs, key, delta) ==
    IF key \in DOMAIN errs
    THEN [errs EXCEPT ![key] = <<@[1] + delta[1], @[2] + delta[2], @[3] + delta[3]>>]
    ELSE errs @@ (key :> delta)

\* lib.rs:1445-1452 and 1537-1544
RECURSIVE Distribute(_, _, _, _, _, _)
Distribute(errs, dists, i, q, width, height) ==
    IF i > Len(dists) THEN errs
    ELSE LET d == dists[i]
             next == IF InBounds(d[1], d[2], width, height)
                     THEN AddError(errs, <<d[1], d[2]>>,
                                   <<q[1] * d[3], q[2] * d[3], q[3] * d[3]>>)
                     ELSE errs
         IN Distribute(next, dists, i + 1, q, width, height)

\* Variant of the removal that leaves the entry in the map; ForwardWindowOrSkipped
\* fails of it.
RemoveKeyKeeps(errs, key) == errs

\* errors.remove(&(x, y))
RemoveKey(errs, key) == [k \in (DOMAIN errs) \ {key} |-> errs[k]]

\* errors.remove(&(x, y)).unwrap_or([0.0, 0.0, 0.0])
TakeError(errs, key) == IF key \in DOMAIN errs THEN errs[key] ELSE <<0, 0, 0>>

\* (v).clamp(0.0, 255.0) as u8, v in sixteenths: the cast drops the fraction
ClampToU8(v16) ==
    IF v16 < 0 THEN 0
    ELSE IF v16 > 255 * ErrScale THEN 255
    ELSE v16 \div ErrScale

\* lib.rs:1418-1423 and 1509-1514
Corrected(pixel, error) ==
    << ClampToU8(pixel[1] * ErrScale + error[1]),
       ClampToU8(pixel[2] * ErrScale + error[2]),
       ClampToU8(pixel[3] * ErrScale + error[3]),
       pixel[4] >>

\* lib.rs:1461-1466
BAYER == << <<0, 8, 2, 10>>, <<12, 4, 14, 6>>, <<3, 11, 1, 9>>, <<15, 7, 13, 5>> >>

\* lib.rs:1478: (BAYER / 16.0 - 0.5) * 64.0, an integer
BayerThreshold(x, y) == 4 * BAYER[(y % 4) + 1][(x % 4) + 1] - 32

\* lib.rs:1480-1485
Adjusted(pixel, threshold) ==
    << ClampToU8((pixel[1] + threshold) * ErrScale),
       ClampToU8((pixel[2] + threshold) * ErrScale),
       ClampToU8((pixel[3] + threshold) * ErrScale),
       pixel[4] >>

NoErrors == [k \in {} |-> <<0, 0, 0>>]
NoPixel == <<>>

DitherIdle ==
    /\ dither_mode = ""
    /\ dither = ""
    /\ result = <<>>
    /\ errors = NoErrors
    /\ pos = 0
    /\ corrected = NoPixel
    /\ new_color = NoPixel
    /\ dithered = <<>>

Width == target_width
Height == target_height
ScanX == pos % Width
ScanY == pos \div Width
ScanPixel == result[pos + 1]

\* lib.rs:446-454 and 1393-1400: decode the mode and enter the pass
ParseDither ==
    /\ pc = "parse_dither"
    /\ \E s \in DitherModeNames :
        /\ dither_mode' = s
        /\ dither' = ParseDitherMode(s)
    /\ result' = quantized
    /\ pc' = "dither"
    /\ UNCHANGED <<metricVars, licenseVars, matchVars, outputVars, inputs, quantizeVars, errors, pos, corrected, new_color, dithered>>

\* lib.rs:1395
DitherNone ==
    /\ pc = "dither"
    /\ dither = "None"
    /\ dithered' = result
    /\ pc' = "dithered"
    /\ UNCHANGED <<metricVars, licenseVars, matchVars, outputVars, inputs, quantizeVars, dither_mode, dither, result, errors, pos,
                   corrected, new_color>>

\* A variant of the skip that hands the pending error of the transparent pixel
\* on to the pixel at its right; TransparentApart fails of it.
DitherSkipTransparentForwards ==
    /\ pc = "dither"
    /\ dither \in {"FloydSteinberg", "Ordered", "Atkinson"}
    /\ pos < Width * Height
    /\ is_transparent(ScanPixel)
    /\ pos' = pos + 1
    /\ errors' = IF <<ScanX, ScanY>> \in DOMAIN errors /\ ScanX + 1 < Width
                 THEN AddError(RemoveKey(errors, <<ScanX, ScanY>>), <<ScanX + 1, ScanY>>,
                               errors[<<ScanX, ScanY>>])
                 ELSE errors
    /\ UNCHANGED <<metricVars, licenseVars, matchVars, outputVars, inputs, pc, quantizeVars, dither_mode, dither, result,
                   corrected, new_color, dithered>>

\* lib.rs:1410-1412, 1474-1476, 1503-1505: a transparent pixel is skipped
DitherSkipTransparent ==
    /\ pc = "dither"
    /\ dither \in {"FloydSteinberg", "Ordered", "Atkinson"}
    /\ pos < Width * Height
    /\ is_transparent(ScanPixel)
    /\ pos' = pos + 1
    /\ UNCHANGED <<metricVars, licenseVars, matchVars, outputVars, inputs, pc, quantizeVars, dither_mode, dither, result, errors,
                   corrected, new_color, dithered>>

\* One opaque pixel of an error-diffusion pass (lib.rs:1414-1452, 1507-1544)
DiffusionStep(dists) ==
    LET key == <<ScanX, ScanY>>
        error == TakeError(errors, key)
        c == Corrected(ScanPixel, error)
        closest_idx == find_closest_color(c, palette)
    IN IF closest_idx >= Len(palette)
       THEN /\ pc' = "panicked"
            /\ corrected' = c
            /\ errors' = RemoveKey(errors, key)
            /\ UNCHANGED <<result, pos, new_color>>
       ELSE LET chosen == palette[closest_idx + 1]
                q == <<c[1] - chosen[1], c[2] - chosen[2], c[3] - chosen[3]>>
            IN /\ corrected' = c
               /\ new_color' = chosen
               /\ result' = [result EXCEPT ![pos + 1] = chosen]
               /\ errors' = Distribute(RemoveKey(errors, key), dists, 1, q, Width, Height)
               /\ pos' = pos + 1
               /\ pc' = pc

FloydSteinbergStep ==
    /\ pc = "dither"
    /\ dither = "FloydSteinberg"
    /\ pos < Width * Height
    /\ ~is_transparent(ScanPixel)
    /\ DiffusionStep(FloydSteinbergDistributions(ScanX, ScanY))
    /\ UNCHANGED <<metricVars, licenseVars, matchVars, outputVars, inputs, quantizeVars, dither_mode, dither, dithered>>

AtkinsonStep ==
    /\ pc = "dither"
    /\ dither = "Atkinson"
    /\ pos < Width * Height
    /\ ~is_transparent(ScanPixel)
    /\ DiffusionStep(AtkinsonDistributions(ScanX, ScanY))
    /\ UNCHANGED <<metricVars, licenseVars, matchVars, outputVars, inputs, quantizeVars, dither_mode, dither, dithered>>

\* A variant of the ordered pass that stores the adjusted pixel instead of
\* the palette color of lib.rs:1488: DitherPaletteOnly fails of it.
OrderedStepKeepsAdjusted ==
    /\ pc = "dither"
    /\ dither = "Ordered"
    /\ pos < Width * Height
    /\ ~is_transparent(ScanPixel)
    /\ LET c == Adjusted(ScanPixel, BayerThreshold(ScanX, ScanY))
           closest_idx == find_closest_color(c, palette)
       IN IF closest_idx >= Len(palette)
          THEN /\ pc' = "panicked"
               /\ corrected' = c
               /\ UNCHANGED <<result, pos, new_color>>
          ELSE /\ corrected' = c
               /\ new_color' = palette[closest_idx + 1]
               /\ result' = [result EXCEPT ![pos + 1] = c]
               /\ pos' = pos + 1
               /\ pc' = pc
    /\ UNCHANGED <<metricVars, licenseVars, matchVars, outputVars, inputs, quantizeVars, dither_mode, dither, errors, dithered>>

\* lib.rs:1478-1488
OrderedStep ==
    /\ pc = "dither"
    /\ dither = "Ordered"
    /\ pos < Width * Height
    /\ ~is_transparent(ScanPixel)
    /\ LET c == Adjusted(ScanPixel, BayerThreshold(ScanX, ScanY))
           closest_idx == find_closest_color(c, palette)
       IN IF closest_idx >= Len(palette)
          THEN /\ pc' = "panicked"
               /\ corrected' = c
               /\ UNCHANGED <<result, pos, new_color>>
          ELSE /\ corrected' = c
               /\ new_color' = palette[closest_idx + 1]
               /\ result' = [result EXCEPT ![pos + 1] = palette[closest_idx + 1]]
               /\ pos' = pos + 1
               /\ pc' = pc
    /\ UNCHANGED <<metricVars, licenseVars, matchVars, outputVars, inputs, quantizeVars, dither_mode, dither, errors, dithered>>

\* lib.rs:1456, 1492, 1548: the pass returns its raster
DitherFinish ==
    /\ pc = "dither"
    /\ dither \in {"FloydSteinberg", "Ordered", "Atkinson"}
    /\ pos = Width * Height
    /\ dithered' = result
    /\ pc' = "dithered"
    /\ UNCHANGED <<metricVars, licenseVars, matchVars, outputVars, inputs, quantizeVars, dither_mode, dither, result, errors, pos,
                   corrected, new_color>>

----------------------------------------------------------------------------
(* threads: the catalogs and threads::color_matching *)

\* The thread libraries (threads/dmc.rs, anchor.rs, kreinik.rs): static lists
\* of ThreadColor.
DmcThreads ==
    << [code |-> "310", name |-> "Black", rgb |-> <<0, 0, 0>>, brand |-> "DMC"],
       [code |-> "B5200", name |-> "Snow White", rgb |-> <<255, 255, 255>>, brand |-> "DMC"],
       [code |-> "221", name |-> "Shell Pink Very Dark", rgb |-> <<100, 50, 50>>, brand |-> "DMC"],
       [code |-> "801", name |-> "Coffee Brown Dark", rgb |-> <<90, 60, 40>>, brand |-> "DMC"] >>

AnchorThreads ==
    << [code |-> "403", name |-> "Black", rgb |-> <<0, 0, 0>>, brand |-> "Anchor"],
       [code |-> "400", name |-> "Grey Dark", rgb |-> <<70, 70, 70>>, brand |-> "Anchor"],
       [code |-> "401", name |-> "Grey Very Dark", rgb |-> <<70, 70, 70>>, brand |-> "Anchor"],
       [code |-> "150", name |-> "Delft Blue Dark", rgb |-> <<30, 30, 120>>, brand |-> "Anchor"] >>

KreinikThreads ==
    << [code |-> "001", name |-> "Silver", rgb |-> <<128, 128, 128>>, brand |-> "Kreinik"],
       [code |-> "010HL", name |-> "Steel Gray", rgb |-> <<45, 65, 75>>, brand |-> "Kreinik"] >>

\* threads/mod.rs:47-53
get_threads_by_brand(b) ==
    CASE b = "DMC" -> DmcThreads
      [] b = "Anchor" -> AnchorThreads
      [] b = "Kreinik" -> KreinikThreads

ThreadBrandNames == {"DMC", "Anchor", "Kreinik"}

\* lib.rs:572-576
ParseThreadBrand(s) ==
    CASE s = "Anchor" -> "Anchor"
      [] s = "Kreinik" -> "Kreinik"
      [] OTHER -> "DMC"

AlgorithmNames == {"euclidean", "weighted", "cie76", "cie94", "ciede2000", "lab"}

\* A variant of the decoding whose fallback is Euclidean: PermissiveDecode
\* fails of it.
ParseAlgorithmDefaultEuclidean(s) ==
    CASE s = "weighted" -> "Weighted"
      [] s = "cie76" -> "Cie76"
      [] s = "cie94" -> "Cie94"
      [] OTHER -> "Euclidean"

\* lib.rs:580-586
ParseAlgorithm(s) ==
    CASE s = "euclidean" -> "Euclidean"
      [] s = "weighted" -> "Weighted"
      [] s = "cie76" -> "Cie76"
      [] s = "cie94" -> "Cie94"
      [] OTHER -> "Ciede2000"

\* The three Lab metrics are f64 computations (powf, cbrt, atan2, cos, exp).
\* Their values are tabulated, in millionths, for every color a palette of
\* the model can hold against every catalog color and four more colors that
\* differ from one another by one step of one channel; distinct entries of
\* a row for catalog colors differ by more than 10^-4, so the order of two
\* distances is the order of their entries.
CatalogColorIndex(c2) ==
    CASE c2 = <<0, 0, 0>> -> 1
      [] c2 = <<255, 255, 255>> -> 2
      [] c2 = <<100, 50, 50>> -> 3
      [] c2 = <<90, 60, 40>> -> 4
      [] c2 = <<70, 70, 70>> -> 5
      [] c2 = <<30, 30, 120>> -> 6
      [] c2 = <<128, 128, 128>> -> 7
      [] c2 = <<45, 65, 75>> -> 8
      [] c2 = <<0, 0, 1>> -> 9
      [] c2 = <<255, 255, 254>> -> 10
      [] c2 = <<2, 253, 220>> -> 11
      [] c2 = <<1, 253, 220>> -> 12

\* delta_e76(c1, c2) * 10^6 for every color c2 of the tables, in CatalogColorIndex order
DeltaE76Row(c1) ==
    CASE c1 = <<0, 0, 0>> -> <<0, 100000004, 36819588, 34969680, 29724684, 62803200, 53585016, 28093687, 403681, 99976453, 106090480, 106099424>>
      [] c1 = <<0, 0, 1>> -> <<403681, 99981028, 36827465, 35104347, 29707631, 62420121, 53566745, 27986717, 0, 99959524, 106155353, 106164303>>
      [] c1 = <<1, 253, 220>> -> <<106099424, 57787675, 101106311, 92508030, 82551032, 125546499, 67284871, 82493639, 106164303, 57598696, 22326, 0>>
      [] c1 = <<2, 253, 220>> -> <<106090480, 57766038, 101090838, 92493466, 82538452, 125534920, 67268368, 82482963, 106155353, 57577016, 0, 22326>>
      [] c1 = <<30, 30, 120>> -> <<62803200, 101520975, 62522371, 72477371, 61208610, 0, 69758982, 56745643, 62420121, 101795602, 125534920, 125546499>>
      [] c1 = <<45, 65, 75>> -> <<28093687, 74369522, 33213845, 30542733, 10476659, 56745643, 29032372, 0, 27986717, 74389989, 82482963, 82493639>>
      [] c1 = <<55, 57, 62>> -> <<24196099, 76121912, 26150722, 23788862, 6702705, 57361555, 29826116, 7770907, 24124670, 76120831, 87183799, 87195412>>
      [] c1 = <<55, 57, 63>> -> <<24330519, 76117372, 26262507, 24222963, 7021743, 56717537, 29870629, 7545669, 24248418, 76120729, 87360243, 87371863>>
      [] c1 = <<55, 57, 64>> -> <<24482739, 76118011, 26387400, 24664950, 7386171, 56073511, 29929174, 7376617, 24390148, 76125803, 87542787, 87554413>>
      [] c1 = <<55, 57, 65>> -> <<24652417, 76123825, 26525230, 25114388, 7789580, 55429532, 30001657, 7267645, 24549539, 76136050, 87731358, 87742991>>
      [] c1 = <<55, 58, 60>> -> <<24279388, 75814669, 26280458, 22796853, 5821316, 59439356, 29435641, 8312364, 24241346, 75800262, 86155192, 86166758>>
      [] c1 = <<56, 56, 67>> -> <<25005781, 76434102, 26265650, 26032984, 9331630, 53255202, 30555010, 8200064, 24872045, 76459509, 89031734, 89043494>>
      [] c1 = <<56, 56, 68>> -> <<25244799, 76461007, 26464655, 26521137, 9835785, 52610957, 30682042, 8326374, 25101673, 76490808, 89239284, 89251049>>
      [] c1 = <<56, 56, 70>> -> <<25768858, 76530161, 26898484, 27512948, 10893810, 51323446, 30975243, 8733700, 25607780, 76568724, 89671254, 89683030>>
      [] c1 = <<56, 56, 71>> -> <<26052905, 76572374, 27132729, 28015999, 11442926, 50680276, 31140987, 9007517, 25883275, 76615303, 89895515, 89907296>>
      [] c1 = <<56, 56, 72>> -> <<26350954, 76619651, 27378130, 28523438, 12002900, 50037557, 31319186, 9322698, 26173059, 76666933, 90125184, 90136970>>
      [] c1 = <<56, 57, 66>> -> <<24919640, 76040051, 26261626, 25278432, 8136195, 54695653, 29990285, 7600976, 24807004, 76056747, 88109013, 88120737>>
      [] c1 = <<57, 55, 74>> -> <<27126334, 77059672, 27520053, 29699683, 13903592, 47878053, 32192744, 11178817, 26923979, 77119679, 91515844, 91527746>>
      [] c1 = <<57, 55, 75>> -> <<27478888, 77127265, 27819617, 30232410, 14489191, 47236714, 32417478, 11592430, 27269403, 77191552, 91761855, 91773762>>
      [] c1 = <<57, 55, 76>> -> <<27842962, 77199785, 28128767, 30768073, 15080377, 46596065, 32653309, 12029660, 27626627, 77268335, 92012869, 92024780>>
      [] c1 = <<57, 55, 77>> -> <<28218061, 77277203, 28447175, 31306485, 15676428, 45956150, 32899959, 12487906, 27995152, 77349997, 92268801, 92280716>>
      [] c1 = <<57, 56, 73>> -> <<26752852, 76581185, 27263012, 28795437, 12542579, 49319925, 31426735, 9992212, 26567714, 76632822, 90528983, 90540854>>
      [] c1 = <<58, 55, 80>> -> <<29497057, 77450903, 29130481, 32738573, 17481840, 43981849, 33631404, 14201840, 29256999, 77536302, 93218527, 93230528>>
      [] c1 = <<70, 70, 70>> -> <<29724684, 70275320, 24756754, 20632698, 0, 61208610, 23860332, 10476659, 29707631, 70252314, 82538452, 82551032>>
      [] c1 = <<77, 79, 81>> -> <<33519803, 66530996, 26330792, 22633276, 4051079, 61028694, 20155227, 11106156, 33487482, 66517594, 79639630, 79652624>>
      [] c1 = <<77, 79, 83>> -> <<33653870, 66501583, 26502108, 23437665, 4645102, 59855438, 20206842, 10645082, 33606551, 66497795, 79973573, 79986568>>
      [] c1 = <<77, 79, 86>> -> <<33944509, 66498765, 26851980, 24704121, 5939053, 58099388, 20426322, 10223280, 33875089, 66509405, 80517965, 80530960>>
      [] c1 = <<78, 78, 88>> -> <<34090541, 66791055, 26498617, 25470809, 7337232, 56082793, 21040972, 10559490, 33999002, 66816001, 81815109, 81828201>>
      [] c1 = <<78, 78, 90>> -> <<34414046, 66850309, 26880702, 26412303, 8471298, 54916903, 21383452, 10712247, 34308572, 66884784, 82231322, 82244410>>
      [] c1 = <<78, 78, 92>> -> <<34781623, 66931379, 27307494, 27373666, 9636448, 53754585, 21791495, 11015146, 34662632, 66975345, 82668854, 82681936>>
      [] c1 = <<79, 77, 95>> -> <<35429672, 67411545, 27554136, 28889603, 12000462, 51178378, 23033763, 12420689, 35284203, 67474059, 84281410, 84294574>>
      [] c1 = <<79, 77, 97>> -> <<35924173, 67557517, 28124995, 29919626, 13216041, 50026326, 23611200, 13068188, 35766576, 67629306, 84771569, 84784725>>
      [] c1 = <<79, 77, 99>> -> <<36456496, 67724574, 28732008, 30961109, 14438089, 48879562, 24238037, 13805279, 36287293, 67805558, 85280919, 85294065>>
      [] c1 = <<80, 81, 89>> -> <<34983922, 65568149, 26840935, 25074453, 7006319, 57700949, 19612007, 11128958, 34908988, 65584014, 80324397, 80337601>>
      [] c1 = <<80, 82, 84>> -> <<34794443, 65254838, 26651282, 22952515, 5254845, 61367418, 18882015, 11978491, 34762672, 65241598, 78746624, 78759815>>
      [] c1 = <<80, 82, 86>> -> <<34924640, 65226168, 26822606, 23744391, 5734148, 60209547, 18940409, 11560395, 34878505, 65222668, 79082634, 79095825>>
      [] c1 = <<81, 80, 96>> -> <<36084249, 66101771, 27647786, 28294948, 11177106, 52837064, 21414397, 12330710, 35955497, 66155908, 82732708, 82745983>>
      [] c1 = <<81, 81, 91>> -> <<35337894, 65517419, 26815219, 25736135, 8037704, 56482742, 19814666, 11466078, 35249336, 65543023, 80929491, 80942771>>
      [] c1 = <<81, 81, 94>> -> <<35820192, 65616984, 27398686, 27136672, 9623084, 54760336, 20384961, 11730709, 35711645, 65657051, 81564056, 81577326>>
      [] c1 = <<82, 80, 99>> -> <<36848882, 66215542, 28126191, 29606617, 12984334, 51076521, 22192956, 13460064, 36702281, 66283891, 83644508, 83657845>>
      [] c1 = <<82, 80, 101>> -> <<37342786, 66374644, 28707859, 30630701, 14163856, 49945227, 22821905, 14112778, 37184621, 66452342, 84145357, 84158682>>
      [] c1 = <<83, 86, 87>> -> <<36360379, 63681697, 27458583, 23375845, 6754606, 62494854, 17307757, 13191222, 36336190, 63663670, 77198705, 77212078>>
      [] c1 = <<84, 84, 96>> -> <<36878998, 64314432, 27558828, 26973910, 9817889, 55771950, 18989094, 12563403, 36780258, 64350505, 80479762, 80493222>>
      [] c1 = <<84, 85, 90>> -> <<36348374, 63862017, 26945661, 24262384, 7200529, 59947897, 17648717, 12686443, 36296526, 63863819, 78601600, 78615068>>
      [] c1 = <<84, 85, 93>> -> <<36651755, 63879983, 27337368, 25526645, 8251880, 58243115, 17971823, 12448758, 36579778, 63896596, 79163263, 79176723>>
      [] c1 = <<85, 84, 99>> -> <<37492950, 64364388, 27881994, 28184060, 11418845, 54026162, 19627117, 13304892, 37375730, 64415109, 81348922, 81362446>>
      [] c1 = <<85, 84, 102>> -> <<38103413, 64550380, 28626226, 29644680, 13036423, 52348334, 20481499, 13975166, 37968330, 64615558, 82057232, 82070738>>
      [] c1 = <<86, 83, 105>> -> <<38846981, 65127248, 29056667, 31216265, 15244490, 49862516, 22048464, 15494028, 38688767, 65211056, 83732249, 83745816>>
      [] c1 = <<88, 90, 92>> -> <<38155946, 61889980, 27761879, 24101103, 8530836, 62376128, 15527426, 14566496, 38125438, 61877209, 76444080, 76457804>>
      [] c1 = <<88, 90, 95>> -> <<38353050, 61858563, 28033555, 25240598, 9067373, 60701503, 15684935, 14118697, 38303237, 61860952, 76965431, 76979147>>
      [] c1 = <<89, 89, 99>> -> <<38637012, 62160027, 27914460, 26720313, 10425653, 57654122, 16619220, 14133694, 38555351, 62187543, 78648527, 78662314>>
      [] c1 = <<89, 89, 102>> -> <<39074153, 62266662, 28476116, 28058887, 11683800, 55998083, 17293806, 14351520, 38974300, 62309171, 79289745, 79303514>>
      [] c1 = <<90, 60, 40>> -> <<34969680, 74622815, 13969442, 0, 20632698, 72477371, 32624639, 30542733, 35104347, 74512910, 92493466, 92508030>>
      [] c1 = <<90, 88, 105>> -> <<39571536, 62735111, 28628654, 29428746, 13468730, 53536447, 18671092, 15257666, 39447840, 62797146, 80897098, 80910928>>
      [] c1 = <<90, 88, 109>> -> <<40432507, 63045902, 29708524, 31387131, 15538114, 51363483, 20038165, 16274507, 40286883, 63127366, 81886277, 81900072>>
      [] c1 = <<95, 96, 103>> -> <<41082353, 59292426, 29002597, 26853889, 11923310, 60458966, 13418491, 16402038, 41022945, 59306148, 75923290, 75937471>>
      [] c1 = <<95, 97, 99>> -> <<41055441, 58988215, 29001160, 25410959, 11398083, 63375831, 12639178, 17017550, 41025845, 58975902, 74523228, 74537425>>
      [] c1 = <<96, 95, 111>> -> <<42068989, 59870360, 29849787, 30141334, 14842175, 55378234, 15969905, 17124153, 41958411, 59930292, 78563377, 78577570>>
      [] c1 = <<96, 96, 107>> -> <<41617781, 59297706, 29312870, 28292221, 13170777, 58260467, 14175471, 16678803, 41535473, 59332277, 76959103, 76973331>>
      [] c1 = <<97, 95, 115>> -> <<42923770, 60090257, 30572182, 31839516, 16708871, 53237422, 17403839, 18190182, 42792553, 60170417, 79752050, 79766273>>
      [] c1 = <<99, 101, 103>> -> <<42695949, 57346638, 29805023, 26265714, 13027084, 63992445, 11008536, 18462000, 42666810, 57334608, 73465051, 73479521>>
      [] c1 = <<99, 101, 105>> -> <<42807500, 57322808, 29969176, 26952959, 13251247, 62930083, 11142293, 18223988, 42767049, 57321465, 73815639, 73830097>>
      [] c1 = <<100, 50, 50>> -> <<36819588, 76709391, 0, 13969442, 24756754, 62522371, 35989043, 33213845, 36827465, 76675138, 101090838, 101106311>>
      [] c1 = <<100, 100, 110>> -> <<43109923, 57628890, 29941096, 28635628, 14293846, 59491111, 12452495, 18109347, 43035815, 57659441, 75702597, 75717093>>
      [] c1 = <<100, 100, 112>> -> <<43360224, 57701293, 30281633, 29455522, 14899871, 58445050, 13022479, 18204793, 43275298, 57742412, 76131972, 76146448>>
      [] c1 = <<100, 101, 107>> -> <<43033707, 57234118, 29883556, 27476974, 13646301, 61818191, 11301295, 18299703, 42982068, 57243543, 74417600, 74432121>>
      [] c1 = <<101, 99, 116>> -> <<43913861, 58227893, 30580905, 31112899, 16556218, 55579321, 14990816, 18937286, 43802288, 58294853, 77975285, 77989788>>
      [] c1 = <<101, 99, 118>> -> <<44279451, 58382682, 31066706, 32020698, 17381952, 54552679, 15791203, 19307083, 44157802, 58459919, 78466230, 78480708>>
      [] c1 = <<101, 100, 114>> -> <<43731099, 57714308, 30392541, 30133983, 15657318, 57361378, 13615502, 18629094, 43635731, 57766026, 76799766, 76814294>>
      [] c1 = <<105, 106, 111>> -> <<44984383, 55197640, 30874879, 28240809, 15453850, 63200847, 9204375, 20225106, 44939734, 55202547, 72958869, 72973734>>
      [] c1 = <<105, 106, 113>> -> <<45141139, 55212464, 31100397, 28950655, 15787220, 62171021, 9599738, 20127084, 45085944, 55228363, 73343237, 73358082>>
      [] c1 = <<105, 107, 108>> -> <<45094307, 54925885, 31057633, 27355579, 15391049, 65493150, 8560389, 20792801, 45071102, 54908795, 71762572, 71777461>>
      [] c1 = <<106, 105, 118>> -> <<45575865, 55639688, 31276129, 30718144, 17059544, 58835756, 11654906, 20362254, 45489412, 55688146, 75317902, 75332760>>
      [] c1 = <<106, 105, 121>> -> <<46014202, 55817868, 31874546, 31966198, 18031773, 57324690, 12849626, 20683217, 45912833, 55882445, 76014594, 76029410>>
      [] c1 = <<106, 106, 116>> -> <<45519822, 55195523, 31249968, 29902823, 16516873, 60591647, 10348322, 20344370, 45449126, 55227954, 74188701, 74203588>>
      [] c1 = <<107, 105, 123>> -> <<46433528, 55887255, 32078553, 32684308, 18833256, 56292038, 13684273, 21213985, 46322691, 55962567, 76720603, 76735461>>
      [] c1 = <<112, 113, 118>> -> <<47796833, 52379636, 32551912, 29967535, 18223291, 64471597, 6587284, 22850668, 47753929, 52385819, 71255895, 71271234>>
      [] c1 = <<112, 114, 115>> -> <<47911826, 52107772, 32740904, 29164464, 18203820, 66703990, 5768806, 23375171, 47888878, 52091038, 70053871, 70069248>>
      [] c1 = <<113, 112, 127>> -> <<48608298, 52956243, 33295185, 33064585, 20127551, 59272623, 10594744, 23132272, 48517003, 53018947, 74100903, 74116174>>
      [] c1 = <<113, 113, 121>> -> <<48113307, 52331458, 32646424, 30826833, 18759517, 62939618, 7401176, 22961078, 48055748, 52354898, 72087866, 72103240>>
      [] c1 = <<113, 113, 124>> -> <<48413055, 52426011, 33073128, 31905291, 19370002, 61463650, 8574068, 23008279, 48341068, 52466552, 72722896, 72738226>>
      [] c1 = <<114, 112, 130>> -> <<49149183, 53103585, 33694641, 34151977, 21140527, 57798405, 12048425, 23722237, 49044332, 53183012, 75057490, 75072778>>
      [] c1 = <<121, 123, 125>> -> <<51528295, 48510654, 35150845, 31945179, 21829342, 67896601, 2500801, 26631747, 51501080, 48500528, 68166870, 68182861>>
      [] c1 = <<122, 122, 131>> -> <<51756251, 48790679, 35123061, 33512512, 22386716, 64287316, 5637581, 26358947, 51697331, 48823032, 70261391, 70277343>>
      [] c1 = <<122, 123, 127>> -> <<51704419, 48406098, 35077040, 32368677, 22051879, 66899317, 3043543, 26670658, 51668131, 48408256, 68789601, 68805634>>
      [] c1 = <<122, 123, 128>> -> <<51763407, 48407641, 35165936, 32663065, 22149919, 66422845, 3489422, 26619557, 51722619, 48415904, 68980744, 68996762>>
      [] c1 = <<122, 123, 129>> -> <<51829121, 48415902, 35263353, 32964554, 22262989, 65947914, 3970436, 26581765, 51783848, 48430267, 69177230, 69193232>>
      [] c1 = <<123, 121, 138>> -> <<52469785, 49488573, 35760328, 35868142, 23954451, 60296129, 10151541, 26876954, 52375815, 49568163, 72803447, 72819310>>
      [] c1 = <<123, 122, 133>> -> <<52033837, 48786569, 35189891, 34062610, 22831834, 63318337, 6703720, 26598336, 51966155, 48831076, 70940884, 70956868>>
      [] c1 = <<123, 122, 135>> -> <<52252410, 48890121, 35501478, 34761390, 23244738, 62388110, 7806388, 26696027, 52176012, 48946606, 71392800, 71408743>>
      [] c1 = <<123, 122, 136>> -> <<52371453, 48951791, 35669270, 35119256, 23470492, 61925882, 8363840, 26764754, 52290739, 49014230, 71626111, 71642034>>
      [] c1 = <<128, 128, 128>> -> <<53585016, 46414988, 35989043, 32624639, 23860332, 69758982, 0, 29032372, 53566745, 46392924, 67268368, 67284871>>
      [] c1 = <<130, 131, 133>> -> <<54746022, 45283415, 37169320, 34164332, 25037163, 69466553, 1666101, 29797181, 54719299, 45274245, 66729440, 66746051>>
      [] c1 = <<130, 131, 135>> -> <<54839922, 45269001, 37315190, 34691341, 25173457, 68544733, 2617753, 29676255, 54804770, 45272737, 67102429, 67119006>>
      [] c1 = <<130, 131, 138>> -> <<55027419, 45300259, 37593502, 35533744, 25475891, 67174200, 4234504, 29582343, 54979715, 45323338, 67701861, 67718380>>
      [] c1 = <<131, 130, 140>> -> <<55048289, 45620808, 37279713, 35935611, 25676810, 65540489, 5883407, 29575026, 54987941, 45662908, 69054441, 69070961>>
      [] c1 = <<131, 130, 143>> -> <<55347475, 45778420, 37708727, 36906963, 26206711, 64198757, 7593684, 29691764, 55274853, 45839495, 69733869, 69750320>>
      [] c1 = <<131, 130, 145>> -> <<55577071, 45918012, 38032114, 37582498, 26617553, 63314404, 8737499, 29827898, 55496386, 45991602, 70211061, 70227463>>
      [] c1 = <<135, 136, 138>> -> <<56690518, 43338787, 38622183, 35687926, 26979825, 70515116, 3317323, 31660895, 56664088, 43330230, 65733555, 65750508>>
      [] c1 = <<135, 136, 142>> -> <<56897777, 43342680, 38936912, 36723521, 27286545, 68721260, 4702398, 31484155, 56855216, 43360903, 66509378, 66526250>>
      [] c1 = <<136, 135, 146>> -> <<57069066, 43735486, 38856995, 37678927, 27720778, 66238674, 7035769, 31476207, 57006412, 43786679, 68297931, 68314747>>
      [] c1 = <<136, 135, 150>> -> <<57488555, 43999672, 39451703, 38954599, 28444727, 64507396, 9177538, 31690169, 57410296, 44076890, 69240253, 69256964>>
      [] c1 = <<140, 142, 143>> -> <<58893565, 41125137, 40525660, 37427933, 29176714, 72281611, 5385592, 33800117, 58871358, 41110293, 64144193, 64161510>>
      [] c1 = <<141, 141, 149>> -> <<59039474, 41383717, 40440792, 38673192, 29490933, 68953199, 6958731, 33504971, 58990152, 41417685, 66259681, 66276894>>
      [] c1 = <<141, 142, 146>> -> <<59096357, 41012008, 40545004, 38032932, 29416555, 70937627, 5927172, 33794307, 59062539, 41018300, 64986028, 65003342>>
      [] c1 = <<142, 140, 155>> -> <<59475075, 42022512, 40748401, 40283630, 30361686, 65710939, 10046667, 33721153, 59399153, 42103849, 68573173, 68590250>>
      [] c1 = <<142, 141, 152>> -> <<59366512, 41437206, 40629579, 39435636, 29970733, 67651640, 8292836, 33719224, 59305847, 41492019, 67188733, 67205926>>
      [] c1 = <<143, 145, 146>> -> <<60045620, 39973112, 41426585, 38374169, 30328272, 72937757, 6522385, 34913488, 60023473, 39958529, 63602256, 63619777>>
      [] c1 = <<144, 144, 151>> -> <<60118027, 40206490, 41241770, 39318962, 30520168, 70077690, 7523752, 34630760, 60073124, 40234811, 65512103, 65529533>>
      [] c1 = <<144, 144, 153>> -> <<60261534, 40274543, 41450537, 39854402, 30744903, 69229867, 8219492, 34632776, 60209161, 40317057, 65944421, 65961797>>
      [] c1 = <<144, 145, 148>> -> <<60199900, 39862409, 41378465, 38730158, 30499413, 72044363, 6812953, 34955037, 60170170, 39862295, 64255560, 64273095>>
      [] c1 = <<145, 143, 157>> -> <<60503487, 40805355, 41488777, 40842219, 31282200, 66867076, 10207069, 34767895, 60432469, 40882394, 67802468, 67819755>>
      [] c1 = <<145, 144, 155>> -> <<60509223, 40295601, 41530757, 40330255, 31093009, 68371831, 9074887, 34837877, 60449486, 40352375, 66660831, 66678210>>
      [] c1 = <<155, 155, 162>> -> <<64295201, 36034491, 44624119, 42749729, 34672050, 72694368, 11286353, 38721464, 64252259, 36068230, 63706051, 63724171>>
      [] c1 = <<155, 156, 157>> -> <<64309696, 35700072, 44651306, 41820439, 34588009, 75401557, 10742082, 39124430, 64287717, 35686683, 62062330, 62080630>>
      [] c1 = <<155, 156, 160>> -> <<64429126, 35681283, 44835062, 42453022, 34738116, 74169518, 11036761, 38995787, 64396710, 35691680, 62644801, 62663018>>
      [] c1 = <<156, 155, 164>> -> <<64511617, 36037707, 44681836, 43171067, 34954396, 71877200, 11850931, 38881327, 64461801, 36087216, 64423744, 64441854>>
      [] c1 = <<156, 155, 165>> -> <<64586439, 36090549, 44789591, 43425468, 35067519, 71478958, 12123131, 38896814, 64533195, 36147815, 64649506, 64667583>>
      [] c1 = <<156, 155, 167>> -> <<64750850, 36221146, 45023701, 43950320, 35319706, 70688831, 12724017, 38953012, 64690788, 36293804, 65115479, 65133488>>
      [] c1 = <<166, 166, 172>> -> <<68363225, 31887537, 48005186, 46041846, 38699765, 75798260, 15064235, 42784728, 68325184, 31919340, 61934302, 61953106>>
      [] c1 = <<166, 167, 168>> -> <<68442947, 31567179, 48125108, 45426867, 38720715, 78002696, 14869448, 43153435, 68421140, 31555179, 60497664, 60516643>>
      [] c1 = <<166, 167, 170>> -> <<68515224, 31550474, 48236063, 45809778, 38806404, 77220035, 15004337, 43074014, 68486955, 31556183, 60888813, 60907729>>
      [] c1 = <<167, 166, 175>> -> <<68628148, 31940568, 48151339, 46655694, 39040779, 74643241, 15671310, 42932313, 68580498, 31998633, 62884633, 62903377>>
      [] c1 = <<167, 166, 177>> -> <<68773774, 32072847, 48358380, 47129634, 39252528, 73890426, 16106354, 42970858, 68719760, 32148063, 63347884, 63366553>>
      [] c1 = <<169, 170, 171>> -> <<69561374, 30448887, 49082697, 46417884, 39839021, 78729033, 15986829, 44246947, 69539611, 30437329, 60116137, 60135294>>
      [] c1 = <<169, 170, 174>> -> <<69675631, 30440356, 49255668, 46988301, 39977158, 77573767, 16207542, 44143744, 69644368, 30456241, 60713674, 60732731>>
      [] c1 = <<170, 169, 177>> -> <<69677402, 30778825, 49014565, 47392257, 40056283, 75786931, 16549992, 44022747, 69633426, 30830677, 62283700, 62302647>>
      [] c1 = <<170, 169, 180>> -> <<69885854, 30971729, 49311239, 48080596, 40354568, 74670743, 17140256, 44069470, 69832498, 31050183, 62973961, 62992793>>
      [] c1 = <<175, 175, 181>> -> <<71704043, 28557904, 50885167, 48967402, 42032051, 78072997, 18337918, 46075106, 71667031, 28595748, 60850408, 60869711>>
      [] c1 = <<175, 176, 177>> -> <<71787378, 28223214, 51008100, 48406873, 42064805, 80201449, 18211155, 46426875, 71765695, 28212642, 59412167, 59431664>>
      [] c1 = <<176, 175, 185>> -> <<72028166, 28703881, 51126859, 49769319, 42448995, 76607600, 19036327, 46236496, 71979060, 28780139, 62046993, 62066180>>
      [] c1 = <<180, 180, 184>> -> <<73451727, 26668381, 52358917, 50221902, 43748762, 80085079, 19952722, 47919575, 73421158, 26689661, 59898093, 59917735>>
      [] c1 = <<180, 180, 186>> -> <<73546527, 26723667, 52496991, 50603157, 43870546, 79359377, 20153437, 47892811, 73510040, 26765495, 60324120, 60343682>>
      [] c1 = <<180, 181, 181>> -> <<73603022, 26400535, 52576602, 49903723, 43878974, 81817455, 20020517, 48278045, 73584367, 26380483, 58694102, 58713903>>
      [] c1 = <<181, 180, 189>> -> <<73798930, 26813894, 52643037, 51168668, 44183666, 78282698, 20640043, 48037659, 73753629, 26886443, 61296287, 61315766>>
      [] c1 = <<188, 188, 193>> -> <<76427240, 23772266, 55020020, 53048107, 46732605, 81796514, 22952746, 50794144, 76394350, 23810304, 59378821, 59398812>>
      [] c1 = <<188, 189, 190>> -> <<76562987, 23448656, 55215250, 52738125, 46840035, 83472853, 22984333, 51116974, 76541459, 23440838, 58161134, 58181299>>
      [] c1 = <<188, 189, 192>> -> <<76631374, 23444180, 55317372, 53068624, 46917896, 82763622, 23087438, 51059283, 76604200, 23459651, 58565075, 58585160>>
      [] c1 = <<189, 188, 194>> -> <<76553905, 23738509, 54996891, 53193941, 46872990, 81445880, 23129270, 50918202, 76518196, 23788230, 59903417, 59923400>>
      [] c1 = <<189, 188, 196>> -> <<76661654, 23854314, 55150609, 53575302, 47014009, 80754819, 23357633, 50919658, 76620328, 23926635, 60348810, 60368706>>
      [] c1 = <<197, 198, 199>> -> <<79833277, 20179477, 58147035, 55746134, 50110119, 85794355, 26253511, 54337258, 79811844, 20174302, 57517845, 57538407>>
      [] c1 = <<198, 197, 205>> -> <<79925067, 20638632, 58083903, 56529485, 50268283, 83173728, 26572468, 54150276, 79884807, 20725187, 59707073, 59727345>>
      [] c1 = <<198, 198, 202>> -> <<80015241, 20125931, 58217897, 56189296, 50307289, 84773283, 26487563, 54394034, 79985748, 20161253, 58452006, 58472469>>
      [] c1 = <<205, 205, 206>> -> <<82433093, 17576556, 60355035, 58058365, 52709365, 87627917, 28851225, 56948793, 82411705, 17574322, 57468698, 57489554>>
      [] c1 = <<205, 205, 208>> -> <<82499135, 17587758, 60452594, 58359583, 52783036, 86966766, 28942356, 56902719, 82472582, 17616071, 57874639, 57895407>>
      [] c1 = <<205, 205, 211>> -> <<82624683, 17722415, 60631779, 58843606, 52934214, 85989755, 29151845, 56872468, 82590409, 17795892, 58519862, 58540491>>
      [] c1 = <<210, 210, 213>> -> <<84291395, 15802454, 62091390, 60026879, 54574765, 88305034, 30732171, 58674287, 84265021, 15836542, 57678998, 57699930>>
      [] c1 = <<210, 211, 211>> -> <<84481042, 15523935, 62355794, 59955034, 54756778, 89541819, 30897365, 58979196, 84462240, 15507248, 56714742, 56735816>>
      [] c1 = <<211, 210, 216>> -> <<84492090, 15889899, 62196858, 60475115, 54799944, 87353983, 31010868, 58769703, 84458189, 15974353, 58643657, 58664471>>
      [] c1 = <<215, 215, 216>> -> <<86010948, 14000457, 63636623, 61408574, 56287107, 90286859, 32428568, 60479323, 85989648, 14003829, 57131512, 57152679>>
      [] c1 = <<215, 215, 220>> -> <<86153769, 14131042, 63842050, 61995163, 56450068, 89026944, 32634237, 60418242, 86122669, 14209583, 57965838, 57986818>>
      [] c1 = <<221, 222, 222>> -> <<88395274, 11610966, 65959013, 63638434, 58670957, 92476658, 34811373, 62844611, 88376428, 11597034, 56499829, 56521193>>
      [] c1 = <<222, 221, 225>> -> <<88319707, 11896129, 65689615, 63820221, 58607929, 90983701, 34773920, 62655459, 88291308, 11971341, 57980874, 58002067>>
      [] c1 = <<226, 226, 227>> -> <<89910729, 10104111, 67247919, 65087880, 60186785, 93254928, 36327923, 64333460, 89889517, 10118115, 57018104, 57039519>>
      [] c1 = <<226, 226, 230>> -> <<90010615, 10226312, 67390865, 65497930, 60297738, 92349217, 36460811, 64288425, 89982432, 10317183, 57636844, 57658116>>
      [] c1 = <<230, 230, 230>> -> <<91292990, 8707014, 68521028, 66297026, 61568307, 94644893, 37707974, 65750189, 91274092, 8696982, 56846030, 56867555>>
      [] c1 = <<230, 230, 233>> -> <<91382932, 8768682, 68651068, 66687929, 61664602, 93748114, 37816596, 65694898, 91357187, 8848360, 57450163, 57471549>>
      [] c1 = <<232, 233, 233>> -> <<92273149, 7735663, 69561972, 67313356, 62548789, 95453585, 38689077, 66679723, 92254263, 7727214, 56553751, 56575302>>
      [] c1 = <<233, 232, 235>> -> <<92161058, 8012835, 69252291, 67341121, 62442936, 94309297, 38595182, 66506428, 92135357, 8102407, 57804276, 57825705>>
      [] c1 = <<255, 255, 254>> -> <<99976453, 507863, 76675138, 74512910, 70252314, 101795602, 46392924, 74389989, 99959524, 0, 57577016, 57598696>>
      [] c1 = <<255, 255, 255>> -> <<100000004, 0, 76709391, 74622815, 70275320, 101520975, 46414988, 74369522, 99981028, 507863, 57766038, 57787675>>

\* delta_e94(c1, c2) * 10^6
DeltaE94Row(c1) ==
    CASE c1 = <<0, 0, 0>> -> <<0, 50000002, 28184884, 24968322, 14862342, 60795731, 26792508, 16455923, 403317, 49990157, 72354893, 72370802>>
      [] c1 = <<0, 0, 1>> -> <<395664, 49991673, 27810799, 24861146, 14857714, 59283974, 26785534, 16191219, 0, 49985886, 71632670, 71648121>>
      [] c1 = <<1, 253, 220>> -> <<47317513, 16109915, 51867867, 45984993, 33590825, 67666464, 23590016, 36669621, 47479555, 16323935, 6670, 0>>
      [] c1 = <<2, 253, 220>> -> <<47318442, 16107968, 51867173, 45984187, 33591467, 67667529, 23590168, 36670433, 47480478, 16321929, 0, 6672>>
      [] c1 = <<30, 30, 120>> -> <<17946279, 43733696, 29347346, 34454460, 16511577, 0, 23507184, 19237932, 17860610, 44081358, 66449931, 66456768>>
      [] c1 = <<45, 65, 75>> -> <<14759616, 37459832, 27974662, 26114511, 6926224, 40785479, 15206977, 0, 14703721, 37557256, 49723790, 49733139>>
      [] c1 = <<55, 57, 62>> -> <<12330617, 38135518, 23184809, 21268056, 4112531, 49201030, 15102339, 6643506, 12246336, 38173507, 59870906, 59885193>>
      [] c1 = <<55, 57, 63>> -> <<12465883, 38155843, 22973647, 21457357, 4441953, 47404285, 15181185, 6396503, 12371090, 38203575, 59281632, 59295401>>
      [] c1 = <<55, 57, 64>> -> <<12610956, 38179485, 22817160, 21681150, 4777445, 45689271, 15268398, 6234629, 12507211, 38236946, 58771000, 58784282>>
      [] c1 = <<55, 57, 65>> -> <<12763423, 38205744, 22710053, 21933169, 5112631, 44054402, 15362112, 6152472, 12652093, 38272877, 58334023, 58346848>>
      [] c1 = <<55, 58, 60>> -> <<12223778, 37934346, 24363215, 21085321, 3243534, 54474840, 14787252, 7461683, 12185268, 37944021, 61118752, 61134430>>
      [] c1 = <<56, 56, 67>> -> <<13123617, 38424604, 21872614, 22326845, 6138155, 39359063, 15789532, 7089229, 12994422, 38519847, 58125193, 58136947>>
      [] c1 = <<56, 56, 68>> -> <<13291636, 38456653, 21928094, 22657313, 6444250, 37997524, 15896215, 7210459, 13158894, 38561052, 57904912, 57916320>>
      [] c1 = <<56, 56, 70>> -> <<13627672, 38521702, 22109953, 23330813, 7026649, 35458321, 16111222, 7543416, 13489761, 38643884, 57595105, 57605895>>
      [] c1 = <<56, 56, 71>> -> <<13794409, 38554243, 22228622, 23668755, 7302911, 34272759, 16218436, 7742766, 13654704, 38685033, 57495847, 57506361>>
      [] c1 = <<56, 56, 72>> -> <<13959651, 38586548, 22361443, 24004889, 7569424, 33138512, 16324879, 7957251, 13818582, 38725750, 57428023, 57438280>>
      [] c1 = <<56, 57, 66>> -> <<12956208, 38185582, 22250429, 21940825, 5400527, 42436053, 15410081, 6537382, 12838205, 38262277, 58298345, 58310840>>
      [] c1 = <<57, 55, 74>> -> <<14349227, 38813521, 22204459, 24632558, 8382626, 29741175, 16764075, 9224684, 14206354, 38976382, 57972248, 57981943>>
      [] c1 = <<57, 55, 75>> -> <<14506266, 38843449, 22389445, 24962291, 8610675, 28785761, 16863655, 9440937, 14363246, 39013876, 57986853, 57996361>>
      [] c1 = <<57, 55, 76>> -> <<14660673, 38872609, 22577518, 25284671, 8830758, 27867921, 16961355, 9659683, 14517713, 39050401, 58017770, 58027104>>
      [] c1 = <<57, 55, 77>> -> <<14812373, 38900945, 22767404, 25599340, 9043195, 26985589, 17057071, 9879514, 14669649, 39085901, 58062933, 58072106>>
      [] c1 = <<57, 56, 73>> -> <<14165930, 38573496, 22170114, 24129831, 7814985, 31950694, 16390695, 8471762, 14024743, 38721017, 57632286, 57642376>>
      [] c1 = <<58, 55, 80>> -> <<15293292, 38936187, 23069927, 26332864, 9631694, 24452651, 17295484, 10738667, 15153255, 39141569, 58462196, 58471014>>
      [] c1 = <<70, 70, 70>> -> <<14862342, 35137660, 24671667, 20594278, 0, 60387763, 11930166, 10046074, 14857919, 35128904, 64222887, 64241159>>
      [] c1 = <<77, 79, 81>> -> <<16801706, 33286580, 24300786, 20965526, 2346454, 55674191, 10146986, 8678424, 16770612, 33297780, 59814789, 59831614>>
      [] c1 = <<77, 79, 83>> -> <<16937524, 33306894, 23630413, 21124404, 3021298, 51986826, 10286551, 7878627, 16884930, 33338689, 58274212, 58289937>>
      [] c1 = <<77, 79, 86>> -> <<17221190, 33377140, 23002844, 21642470, 4162941, 46865139, 10621707, 7212531, 17145154, 33440503, 56437405, 56451603>>
      [] c1 = <<78, 78, 88>> -> <<17435221, 33596237, 22019539, 21902158, 5186955, 42185303, 11141203, 7741056, 17342441, 33690439, 55975608, 55988636>>
      [] c1 = <<78, 78, 90>> -> <<17678516, 33670304, 22080050, 22522436, 5864219, 39514467, 11435094, 7885618, 17578614, 33784606, 55422411, 55434703>>
      [] c1 = <<78, 78, 92>> -> <<17926443, 33747143, 22241570, 23169597, 6490947, 37081204, 11731772, 8151003, 17821315, 33880848, 55052226, 55063876>>
      [] c1 = <<79, 77, 95>> -> <<18319456, 34027436, 22105391, 24076385, 7601969, 32537959, 12426816, 9382532, 18208178, 34197170, 55331406, 55342097>>
      [] c1 = <<79, 77, 97>> -> <<18563041, 34102123, 22457374, 24732985, 8100371, 30667694, 12701272, 9767317, 18450101, 34288731, 55297554, 55307824>>
      [] c1 = <<79, 77, 99>> -> <<18801591, 34174341, 22826752, 25365560, 8564201, 28943946, 12965400, 10168163, 18687713, 34376985, 55334538, 55344441>>
      [] c1 = <<80, 81, 89>> -> <<17776462, 32936751, 22585541, 21673132, 4722929, 45397446, 10304934, 7717207, 17696008, 33011323, 56138487, 56152402>>
      [] c1 = <<80, 82, 84>> -> <<17437051, 32648674, 24391434, 21051791, 2879374, 55793628, 9514203, 8971634, 17406866, 32660201, 59537372, 59554307>>
      [] c1 = <<80, 82, 86>> -> <<17567805, 32669687, 23726425, 21208185, 3451855, 52132584, 9663331, 8203791, 17516971, 32702070, 57994313, 58010153>>
      [] c1 = <<81, 80, 96>> -> <<18606540, 33362349, 22207515, 23654580, 7205352, 34931286, 11633113, 8974795, 18500390, 33516290, 54878985, 54890210>>
      [] c1 = <<81, 81, 91>> -> <<18042578, 32961737, 22120633, 21970466, 5430854, 42395889, 10559275, 8054112, 17952878, 33057318, 55677205, 55690349>>
      [] c1 = <<81, 81, 94>> -> <<18396393, 33076473, 22247026, 22903600, 6388018, 38505495, 11024633, 8303032, 18296926, 33202341, 54907646, 54919719>>
      [] c1 = <<82, 80, 99>> -> <<19011168, 33437842, 22366463, 24452400, 8007048, 31860930, 12045600, 9802282, 18902168, 33618623, 54976797, 54987373>>
      [] c1 = <<82, 80, 101>> -> <<19245001, 33513397, 22725693, 25094550, 8479562, 30078423, 12327172, 10184965, 19134649, 33710866, 54975556, 54985735>>
      [] c1 = <<83, 86, 87>> -> <<18213807, 31860055, 24955327, 21180614, 3553822, 56873086, 8724281, 9463611, 18197670, 31862250, 58794883, 58812026>>
      [] c1 = <<84, 84, 96>> -> <<18874705, 32408735, 22293871, 22664856, 6351156, 39974483, 10314355, 8528060, 18781025, 32526394, 54818575, 54831095>>
      [] c1 = <<84, 85, 90>> -> <<18309306, 32008108, 23222900, 21189887, 4229840, 50570331, 9099393, 8635038, 18251309, 32051778, 57468231, 57483773>>
      [] c1 = <<84, 85, 93>> -> <<18594596, 32094928, 22742219, 21796450, 5190825, 45658748, 9521969, 8208930, 18517616, 32171059, 55759650, 55773719>>
      [] c1 = <<85, 84, 99>> -> <<19266222, 32487703, 22223778, 23417251, 7235647, 36353279, 10773257, 9215093, 19165890, 32635162, 54570746, 54582386>>
      [] c1 = <<85, 84, 102>> -> <<19612632, 32609446, 22648785, 24398228, 8010931, 33273471, 11249931, 9714872, 19507961, 32784677, 54334033, 54344907>>
      [] c1 = <<86, 83, 105>> -> <<19965699, 32889924, 22734505, 25298799, 8913804, 29458769, 11953704, 10867622, 19858625, 33098617, 54903268, 54913421>>
      [] c1 = <<88, 90, 92>> -> <<19113290, 30966776, 24707751, 21369541, 4420700, 56138358, 7850098, 9900429, 19085194, 30979250, 58830333, 58847554>>
      [] c1 = <<88, 90, 95>> -> <<19307503, 31010661, 23802763, 21647765, 5059141, 50809909, 8157506, 8969504, 19252968, 31055763, 56585141, 56600750>>
      [] c1 = <<89, 89, 99>> -> <<19654261, 31289818, 22471673, 22239885, 6344992, 42980702, 9062837, 9046344, 19571777, 31389395, 54916893, 54930340>>
      [] c1 = <<89, 89, 102>> -> <<19977284, 31411447, 22587057, 23147212, 7177911, 39157597, 9600186, 9255751, 19885508, 31542439, 54119915, 54132285>>
      [] c1 = <<90, 60, 40>> -> <<17521747, 37328721, 10561417, 0, 10378785, 50829061, 16351879, 22823579, 17856057, 37309806, 58056962, 58067386>>
      [] c1 = <<90, 88, 105>> -> <<20314047, 31703434, 22358173, 24002380, 8156941, 34529296, 10408481, 10250913, 20214984, 31873205, 54238234, 54249541>>
      [] c1 = <<90, 88, 109>> -> <<20749542, 31867591, 23034007, 25285863, 9066695, 30881124, 11055713, 10925082, 20646751, 32072919, 54128438, 54138875>>
      [] c1 = <<95, 96, 103>> -> <<20734347, 29780383, 23423493, 22069832, 6596558, 47938234, 7279233, 9860528, 20670359, 29849967, 55283889, 55298829>>
      [] c1 = <<95, 97, 99>> -> <<20559799, 29516443, 25067933, 21745047, 5813528, 56470294, 6423025, 10847048, 20533217, 29529844, 58250082, 58267544>>
      [] c1 = <<96, 95, 111>> -> <<21512305, 30272836, 22903931, 24148420, 8683430, 36293063, 9170002, 10713018, 21420001, 30438899, 53392796, 53404546>>
      [] c1 = <<96, 96, 107>> -> <<21152428, 29890967, 22877842, 22857741, 7601492, 42205310, 8040608, 10085676, 21071915, 30005462, 53970746, 53984066>>
      [] c1 = <<97, 95, 115>> -> <<21968240, 30408898, 23221371, 25234188, 9580594, 32456351, 9885072, 11563282, 21871936, 30612951, 53436422, 53447281>>
      [] c1 = <<99, 101, 103>> -> <<21378438, 28696007, 25306211, 21997223, 6612701, 56672223, 5621259, 11429158, 21352615, 28709982, 57934349, 57951945>>
      [] c1 = <<99, 101, 105>> -> <<21484909, 28722063, 24681225, 22137493, 6883290, 53170642, 5875243, 10852155, 21442584, 28758864, 56376762, 56393291>>
      [] c1 = <<100, 50, 50>> -> <<17735487, 38035643, 0, 10097599, 11351273, 41279567, 17304048, 23128071, 17943092, 38123262, 64197322, 64207988>>
      [] c1 = <<100, 100, 110>> -> <<21849053, 29035102, 23131492, 22801200, 7990200, 43838526, 7178508, 10666718, 21774619, 29141009, 53953661, 53967508>>
      [] c1 = <<100, 100, 112>> -> <<22040080, 29122120, 23173591, 23370998, 8440349, 41294433, 7624580, 10753503, 21959502, 29250324, 53351844, 53364945>>
      [] c1 = <<100, 101, 107>> -> <<21661560, 28726022, 23900233, 22182397, 7266609, 49865407, 6178840, 10759809, 21605787, 28786072, 55455876, 55471481>>
      [] c1 = <<101, 99, 116>> -> <<22429574, 29472040, 22989728, 24478610, 9460771, 35595334, 8784093, 11650007, 22339433, 29652043, 53199068, 53210744>>
      [] c1 = <<101, 99, 118>> -> <<22627616, 29563090, 23299814, 25109460, 9867865, 33746757, 9175090, 11929421, 22535205, 29762341, 53085262, 53096463>>
      [] c1 = <<101, 100, 114>> -> <<22279769, 29172271, 22994901, 23773829, 8920416, 38885102, 8039368, 11187382, 22194817, 29322266, 53216503, 53229001>>
      [] c1 = <<105, 106, 111>> -> <<22594943, 27682625, 24459212, 22378867, 8021108, 51849555, 5080645, 11718886, 22547284, 27732671, 55735166, 55751455>>
      [] c1 = <<105, 106, 113>> -> <<22742088, 27746641, 24105462, 22711256, 8371443, 48649035, 5550743, 11465973, 22683489, 27820733, 54483391, 54498685>>
      [] c1 = <<105, 107, 108>> -> <<22561792, 27474962, 26007180, 22355828, 7738309, 58584845, 4356650, 12665875, 22546143, 27478459, 58170644, 58188895>>
      [] c1 = <<106, 105, 118>> -> <<23156974, 28122935, 23270241, 23771736, 9471676, 40469047, 7135467, 11863630, 23077560, 28266391, 52988652, 53001637>>
      [] c1 = <<106, 105, 121>> -> <<23439950, 28266825, 23573078, 24687812, 10069303, 37268552, 7834726, 12157740, 23354898, 28442499, 52506126, 52518210>>
      [] c1 = <<106, 106, 116>> -> <<23035137, 27825178, 23568733, 23191216, 8989204, 44331586, 6275029, 11628566, 22964390, 27934997, 53467499, 53481555>>
      [] c1 = <<107, 105, 123>> -> <<23673581, 28324316, 23560339, 25130400, 10492536, 35274362, 8260467, 12635770, 23586385, 28520640, 52601062, 52612685>>
      [] c1 = <<112, 113, 118>> -> <<23993386, 26276508, 25009504, 22930942, 9357904, 52325071, 3923820, 12877489, 23948259, 26329174, 55228390, 55244911>>
      [] c1 = <<112, 114, 115>> -> <<23969412, 26066299, 26521330, 22920502, 9137379, 58955025, 2994448, 13752767, 23954186, 26070515, 57675456, 57693922>>
      [] c1 = <<113, 112, 127>> -> <<24692661, 26835182, 24013907, 24854788, 10968843, 38981653, 6862808, 13148934, 24613565, 27007505, 52065586, 52078180>>
      [] c1 = <<113, 113, 121>> -> <<24247729, 26341512, 24229333, 23234194, 9859499, 47648835, 4787924, 12826670, 24187975, 26431779, 53786182, 53801315>>
      [] c1 = <<113, 113, 124>> -> <<24492893, 26477682, 24143439, 23975553, 10380034, 43664693, 5685469, 12816462, 24422956, 26604584, 52596211, 52610118>>
      [] c1 = <<114, 112, 130>> -> <<25004651, 26950325, 24113068, 25586253, 11534844, 36023899, 7590345, 13688691, 24921820, 27155045, 52020390, 52032230>>
      [] c1 = <<121, 123, 125>> -> <<25787868, 24280521, 26983721, 23800826, 10970546, 57932130, 1669233, 14949496, 25765254, 24298358, 56399043, 56417322>>
      [] c1 = <<122, 122, 131>> -> <<26083086, 24612654, 24989878, 24242332, 11659388, 47026409, 4312269, 14341619, 26023569, 24721899, 52705552, 52720543>>
      [] c1 = <<122, 123, 127>> -> <<25911693, 24266576, 26136462, 23732553, 11164698, 54702713, 2322697, 14742738, 25875266, 24310263, 55325994, 55343358>>
      [] c1 = <<122, 123, 128>> -> <<25967284, 24295314, 25895344, 23830439, 11273511, 53044127, 2735204, 14585694, 25925244, 24352254, 54564575, 54581411>>
      [] c1 = <<122, 123, 129>> -> <<26028485, 24329869, 25705149, 23964815, 11394199, 51466194, 3139858, 14467074, 25981428, 24400111, 53887779, 53904111>>
      [] c1 = <<123, 121, 138>> -> <<26624263, 25156744, 24778745, 25974346, 12807648, 37910493, 6807747, 15011065, 26547551, 25362553, 51415879, 51428243>>
      [] c1 = <<123, 122, 133>> -> <<26280163, 24673860, 24660391, 24537215, 12003755, 44398618, 5000197, 14570147, 26214869, 24809033, 52255505, 52269745>>
      [] c1 = <<123, 122, 135>> -> <<26440388, 24780571, 24749167, 25079284, 12312395, 42102216, 5634764, 14653840, 26370366, 24940572, 51706337, 51719872>>
      [] c1 = <<123, 122, 136>> -> <<26522025, 24835361, 24823735, 25359682, 12467622, 41032662, 5934147, 14718077, 26450035, 25007435, 51495631, 51508842>>
      [] c1 = <<128, 128, 128>> -> <<26792508, 23207494, 27915401, 24161723, 11930166, 62662879, 0, 16858325, 26785648, 23200621, 59604422, 59624411>>
      [] c1 = <<130, 131, 133>> -> <<27390149, 22662424, 27535463, 24475041, 12556012, 58766455, 1277705, 16524474, 27367940, 22681834, 56630687, 56649394>>
      [] c1 = <<130, 131, 135>> -> <<27474977, 22701119, 26911294, 24538786, 12706135, 55279884, 2175617, 16122284, 27440314, 22748027, 54848544, 54866140>>
      [] c1 = <<130, 131, 138>> -> <<27646909, 22811747, 26353865, 24916633, 13023158, 50629105, 3439500, 15795268, 27598035, 22900674, 52800237, 52816334>>
      [] c1 = <<131, 130, 140>> -> <<27742870, 23073860, 25468886, 25049978, 13300866, 46374239, 4554341, 15937046, 27683650, 23203743, 52093605, 52108472>>
      [] c1 = <<131, 130, 143>> -> <<27967160, 23243115, 25556489, 25815501, 13712195, 42913451, 5544582, 16023705, 27900730, 23412490, 51178918, 51192695>>
      [] c1 = <<131, 130, 145>> -> <<28121776, 23361245, 25712818, 26358404, 13991255, 40865565, 6141473, 16149883, 28051779, 23555727, 50782863, 50796007>>
      [] c1 = <<135, 136, 138>> -> <<28361605, 21690771, 28035007, 25013295, 13524225, 59101664, 1917833, 17372869, 28339906, 21711413, 56355935, 56374773>>
      [] c1 = <<135, 136, 142>> -> <<28549803, 21803648, 27016456, 25287933, 13852470, 52513218, 3358599, 16756531, 28506504, 21881827, 53122517, 53139234>>
      [] c1 = <<136, 135, 146>> -> <<28769637, 22173650, 26013617, 25802842, 14338161, 45656291, 5084094, 16821136, 28709644, 22322531, 51442034, 51456664>>
      [] c1 = <<136, 135, 150>> -> <<29064752, 22416943, 26242252, 26838662, 14859409, 41411775, 6291522, 17008349, 28996871, 22618727, 50470532, 50483820>>
      [] c1 = <<140, 142, 143>> -> <<29456998, 20577195, 29095194, 25747839, 14608966, 60675954, 2802299, 18407695, 29443003, 20585239, 56029612, 56048845>>
      [] c1 = <<141, 141, 149>> -> <<29667098, 20901553, 27049330, 25977684, 15038305, 50070397, 4563753, 17710517, 29617540, 21013508, 52058154, 52074136>>
      [] c1 = <<141, 142, 146>> -> <<29597981, 20577703, 28068696, 25746503, 14808075, 56117979, 3424688, 18043902, 29565395, 20629825, 54263404, 54281299>>
      [] c1 = <<142, 140, 155>> -> <<30046612, 21446465, 26544564, 27191260, 15777700, 41882637, 6611486, 18047592, 29981028, 21656643, 50457970, 50471434>>
      [] c1 = <<142, 141, 152>> -> <<29907214, 21038213, 26687743, 26441752, 15424234, 46258626, 5526175, 17873099, 29849338, 21194466, 51108233, 51123031>>
      [] c1 = <<143, 145, 146>> -> <<30032760, 20001499, 29411596, 26093800, 15183826, 60881339, 3351553, 18921812, 30018866, 20010073, 55884397, 55903703>>
      [] c1 = <<144, 144, 151>> -> <<30177322, 20279720, 27485140, 26143585, 15491826, 51711850, 4612834, 18287695, 30132063, 20379344, 52451376, 52467889>>
      [] c1 = <<144, 144, 153>> -> <<30300006, 20389632, 27332492, 26508348, 15701578, 49052691, 5207431, 18219375, 30248206, 20519737, 51427541, 51443177>>
      [] c1 = <<144, 145, 148>> -> <<30129841, 19976318, 28668582, 26045324, 15308621, 58009649, 3661206, 18725659, 30103063, 20014647, 54971922, 54990431>>
      [] c1 = <<145, 143, 157>> -> <<30536741, 20822921, 26804007, 27245789, 16185446, 43182875, 6585648, 18508727, 30473854, 21024646, 50480759, 50494609>>
      [] c1 = <<145, 144, 155>> -> <<30473364, 20474824, 27035057, 26772592, 15968038, 46564655, 5820041, 18400874, 30416480, 20635053, 50951102, 50965981>>
      [] c1 = <<155, 155, 162>> -> <<32256026, 18210003, 28789936, 27451909, 17536271, 52723215, 6231252, 20239108, 32213372, 18320679, 51952719, 51969512>>
      [] c1 = <<155, 156, 157>> -> <<32159649, 17858682, 30554288, 27381987, 17302928, 62234976, 5399706, 21016399, 32145706, 17869220, 56372293, 56392141>>
      [] c1 = <<155, 156, 160>> -> <<32258925, 17920622, 29670144, 27418976, 17451199, 57253927, 5771717, 20508581, 32228532, 17981099, 53636426, 53654663>>
      [] c1 = <<156, 155, 164>> -> <<32411891, 18296794, 28383954, 27629400, 17763614, 50045317, 6723443, 20340586, 32363254, 18441197, 51222802, 51238749>>
      [] c1 = <<156, 155, 165>> -> <<32472374, 18363962, 28359730, 27830105, 17861573, 48850059, 6953106, 20333798, 32421136, 18524673, 50799339, 50814884>>
      [] c1 = <<156, 155, 167>> -> <<32598179, 18505841, 28382510, 28266496, 18064982, 46630532, 7412716, 20362689, 32542508, 18698315, 50110731, 50125531>>
      [] c1 = <<166, 166, 172>> -> <<34260370, 16111925, 30285029, 28706036, 19488671, 55139711, 7881823, 22247085, 34223325, 16217691, 52163353, 52180863>>
      [] c1 = <<166, 167, 168>> -> <<34225878, 15793137, 31848933, 28783239, 19368142, 63055276, 7454971, 22906895, 34212251, 15806447, 55966798, 55986862>>
      [] c1 = <<166, 167, 170>> -> <<34282694, 15829632, 31252033, 28776227, 19447451, 59770338, 7615882, 22573486, 34258337, 15879737, 54090145, 54109144>>
      [] c1 = <<167, 166, 175>> -> <<34458324, 16277916, 29780676, 29003172, 19772862, 51169022, 8444999, 22285111, 34412284, 16439480, 50798551, 50814754>>
      [] c1 = <<167, 166, 177>> -> <<34573518, 16432808, 29754945, 29391846, 19951452, 48899223, 8816115, 22285159, 34522814, 16629822, 49995199, 50010621>>
      [] c1 = <<169, 170, 171>> -> <<34784994, 15234280, 32213083, 29176018, 19927029, 63286760, 8012132, 23423525, 34771445, 15248471, 55869494, 55889612>>
      [] c1 = <<169, 170, 174>> -> <<34877742, 15311346, 31386632, 29209541, 20058085, 58460848, 8273729, 22976908, 34849159, 15382944, 53139029, 53157566>>
      [] c1 = <<170, 169, 177>> -> <<34958629, 15659015, 30222405, 29218454, 20236035, 52696911, 8766199, 22836151, 34915919, 15807262, 51185962, 51202649>>
      [] c1 = <<170, 169, 180>> -> <<35125861, 15894343, 30145587, 29771174, 20492458, 49228880, 9287905, 22814819, 35075875, 16097695, 49891306, 49906794>>
      [] c1 = <<175, 175, 181>> -> <<35925961, 14463601, 31448556, 29890463, 21141915, 56000671, 9453945, 23836570, 35890374, 14581518, 51885800, 51903494>>
      [] c1 = <<175, 176, 177>> -> <<35897811, 14122089, 32954093, 29973510, 21039437, 63759276, 9121814, 24457298, 35884411, 14138246, 55691778, 55711999>>
      [] c1 = <<176, 175, 185>> -> <<36170214, 14739354, 30940783, 30352314, 21488359, 50977362, 10092856, 23867209, 36123705, 14937618, 50080886, 50096880>>
      [] c1 = <<180, 180, 184>> -> <<36762300, 13434222, 32446463, 30400577, 21935501, 59352226, 10109671, 24877613, 36734729, 13516544, 53251585, 53270354>>
      [] c1 = <<180, 180, 186>> -> <<36844757, 13557355, 32109285, 30563280, 22054919, 56489536, 10334578, 24717737, 36809915, 13683222, 51754611, 51772398>>
      [] c1 = <<180, 181, 181>> -> <<36802853, 13204008, 33756225, 30574021, 21941738, 65318915, 10015191, 25474021, 36795247, 13201166, 56058205, 56078831>>
      [] c1 = <<181, 180, 189>> -> <<37030905, 13764584, 31637547, 30838815, 22310683, 52650791, 10780554, 24754393, 36987702, 13954626, 50378362, 50394851>>
      [] c1 = <<188, 188, 193>> -> <<38264067, 12047335, 33328792, 31567978, 23448714, 58653469, 11643248, 26189255, 38233638, 12164348, 52285609, 52304010>>
      [] c1 = <<188, 189, 190>> -> <<38285262, 11736629, 34611029, 31748600, 23426178, 64824627, 11504715, 26696451, 38272147, 11758270, 55383007, 55403423>>
      [] c1 = <<188, 189, 192>> -> <<38337214, 11792264, 34073936, 31742536, 23494091, 61697616, 11614970, 26418751, 38314678, 11861969, 53519566, 53538947>>
      [] c1 = <<189, 188, 194>> -> <<38345620, 12088868, 32958219, 31514832, 23548477, 57191122, 11789923, 26259705, 38311974, 12230492, 51873605, 51891535>>
      [] c1 = <<189, 188, 196>> -> <<38436777, 12263390, 32778998, 31770053, 23679376, 54681550, 12021996, 26178792, 38397444, 12451740, 50691844, 50708890>>
      [] c1 = <<197, 198, 199>> -> <<39920194, 10103795, 35793284, 33008802, 25060723, 65593448, 13137563, 28243728, 39907251, 10130692, 55229355, 55249884>>
      [] c1 = <<198, 197, 205>> -> <<40062883, 10701351, 34030390, 33022149, 25293392, 55654384, 13585088, 27753455, 40024917, 10916619, 50540757, 50557943>>
      [] c1 = <<198, 198, 202>> -> <<40040058, 10191167, 34868886, 32909961, 25205206, 61053651, 13341452, 28014693, 40014197, 10301359, 52911505, 52930546>>
      [] c1 = <<205, 205, 206>> -> <<41218923, 8799417, 36592168, 33921045, 26358399, 66406101, 14432401, 29582220, 41205986, 8831943, 55750483, 55771210>>
      [] c1 = <<205, 205, 208>> -> <<41268267, 8881180, 36043148, 33879350, 26420736, 63207507, 14524394, 29323538, 41246695, 8976100, 53708216, 53727853>>
      [] c1 = <<205, 205, 211>> -> <<41373572, 9142427, 35533575, 34049949, 26562580, 59036037, 14748575, 29095473, 41341886, 9329414, 51339937, 51358102>>
      [] c1 = <<210, 210, 213>> -> <<42163851, 7997495, 36736375, 34600666, 27315413, 63688451, 15415807, 30185000, 42142580, 8103669, 53668757, 53688446>>
      [] c1 = <<210, 211, 211>> -> <<42241627, 7767983, 37691419, 34798889, 27380095, 67827975, 15451706, 30595124, 42233722, 7771842, 55580806, 55601781>>
      [] c1 = <<211, 210, 216>> -> <<42306249, 8259097, 36037769, 34642073, 27492706, 59475641, 15668724, 30085587, 42275177, 8466486, 51598256, 51616481>>
      [] c1 = <<215, 215, 216>> -> <<43007712, 7013968, 37959621, 35366246, 28146974, 67304587, 16220221, 31286225, 42994943, 7057536, 55674257, 55695069>>
      [] c1 = <<215, 215, 220>> -> <<43119807, 7322663, 37075322, 35410173, 28290499, 61382188, 16430099, 30885317, 43092077, 7516717, 51988543, 52007284>>
      [] c1 = <<221, 222, 222>> -> <<44198675, 5813376, 39195495, 36398055, 29337042, 68812936, 17408320, 32463048, 44190680, 5822704, 55537311, 55558364>>
      [] c1 = <<222, 221, 225>> -> <<44189039, 6161007, 37886014, 36105067, 29347927, 63241089, 17460953, 32103900, 44164998, 6346634, 53032678, 53051943>>
      [] c1 = <<226, 226, 227>> -> <<44957467, 5070735, 39488375, 36975718, 30096534, 68323114, 18169165, 33153683, 44944863, 5135058, 55656112, 55676993>>
      [] c1 = <<226, 226, 230>> -> <<45032929, 5350832, 38799672, 36965244, 30190086, 63867515, 18298489, 32845773, 45009159, 5563824, 52775096, 52794407>>
      [] c1 = <<230, 230, 230>> -> <<45646495, 4353507, 40363963, 37636695, 30784153, 70352468, 18853987, 33974332, 45638382, 4370624, 56826880, 56848345>>
      [] c1 = <<230, 230, 233>> -> <<45707703, 4550438, 39558779, 37528756, 30856358, 65672914, 18947500, 33611141, 45687493, 4740784, 53656982, 53676818>>
      [] c1 = <<232, 233, 233>> -> <<46137551, 3879460, 40723583, 38015394, 31275835, 69828830, 19346867, 34323377, 46129475, 3899602, 55561675, 55582779>>
      [] c1 = <<233, 232, 235>> -> <<46097419, 4196228, 39646068, 37699592, 31246391, 65745178, 19337889, 34062199, 46077358, 4403684, 53907746, 53927567>>
      [] c1 = <<255, 255, 254>> -> <<49990036, 495354, 43546671, 40952174, 35128732, 71951298, 23200361, 38178602, 49985861, 0, 55540714, 55561743>>
      [] c1 = <<255, 255, 255>> -> <<50000002, 0, 43892474, 41350187, 35137660, 72709577, 23207494, 38160055, 49991734, 507407, 57058346, 57079838>>

\* delta_e2000(c1, c2) * 10^6
DeltaE2000Row(c1) ==
    CASE c1 = <<0, 0, 0>> -> <<0, 100000004, 26258614, 24028474, 19519151, 28101454, 39934472, 19226732, 428120, 99976557, 88419733, 88415868>>
      [] c1 = <<0, 0, 1>> -> <<428120, 99981098, 26229563, 24138912, 19512767, 27521154, 39926510, 19174827, 0, 99960079, 88559486, 88555669>>
      [] c1 = <<1, 253, 220>> -> <<88415868, 26509672, 76220065, 67289676, 58849265, 81499181, 37564398, 62343389, 88555669, 26408658, 6969, 0>>
      [] c1 = <<2, 253, 220>> -> <<88419733, 26506824, 76217304, 67288284, 58849562, 81498337, 37564019, 62343528, 88559486, 26405669, 0, 6969>>
      [] c1 = <<30, 30, 120>> -> <<28101454, 77296359, 29816790, 36916786, 27043942, 0, 39108077, 12976976, 27521154, 77586542, 81498337, 81499181>>
      [] c1 = <<45, 65, 75>> -> <<19226732, 62764925, 31022230, 26303055, 9392086, 12976976, 25627427, 0, 19174827, 62792821, 62343528, 62343389>>
      [] c1 = <<55, 57, 62>> -> <<15621022, 65168192, 20645307, 18025887, 5354574, 20807294, 25818317, 7711202, 15534286, 65186254, 66151784, 66151611>>
      [] c1 = <<55, 57, 63>> -> <<15773138, 65152160, 20585523, 18287605, 5695386, 20661276, 25870855, 7811882, 15670572, 65175793, 66246455, 66246314>>
      [] c1 = <<55, 57, 64>> -> <<15943599, 65140145, 20543503, 18559272, 6067728, 20448869, 25934780, 7966124, 15826189, 65169260, 66340101, 66339994>>
      [] c1 = <<55, 57, 65>> -> <<16130131, 65131732, 20515719, 18837496, 6461926, 20195601, 26008955, 8165545, 15998858, 65166239, 66431883, 66431807>>
      [] c1 = <<55, 58, 60>> -> <<15597978, 64792250, 21670949, 18086384, 4565846, 19141428, 25521828, 7292684, 15570073, 64791645, 65327230, 65326982>>
      [] c1 = <<56, 56, 67>> -> <<16674303, 65485323, 19526876, 19223039, 7986062, 20321113, 26510836, 10249432, 16499958, 65541897, 67429690, 67429803>>
      [] c1 = <<56, 56, 68>> -> <<16913604, 65489263, 19574411, 19540020, 8408923, 19921794, 26619696, 10524312, 16729466, 65551687, 67500090, 67500233>>
      [] c1 = <<56, 56, 70>> -> <<17410617, 65502209, 19690861, 20171000, 9247069, 19151528, 26852444, 11105680, 17209220, 65576288, 67636013, 67636210>>
      [] c1 = <<56, 56, 71>> -> <<17666036, 65510742, 19759373, 20484517, 9659768, 18779719, 26975041, 11405703, 17457073, 65590621, 67701702, 67701925>>
      [] c1 = <<56, 56, 72>> -> <<17924745, 65520362, 19834483, 20796454, 10067031, 18416306, 27101011, 11708206, 17708859, 65606020, 67765954, 67766201>>
      [] c1 = <<56, 57, 66>> -> <<16415743, 65013805, 19942760, 18813595, 6885413, 20626494, 26044654, 9034167, 16268734, 65054385, 66603164, 66603163>>
      [] c1 = <<57, 55, 74>> -> <<18698988, 65925073, 19391816, 21448933, 11548325, 17801710, 27754218, 13615978, 18462687, 66030830, 68643128, 68643560>>
      [] c1 = <<57, 55, 75>> -> <<18963975, 65937099, 19513877, 21767186, 11920897, 17443061, 27888247, 13868909, 18723017, 66048476, 68688696, 68689147>>
      [] c1 = <<57, 55, 76>> -> <<19228621, 65949291, 19641044, 22082452, 12286652, 17092676, 28023269, 14115282, 18983406, 66066248, 68733819, 68734287>>
      [] c1 = <<57, 55, 77>> -> <<19492496, 65961521, 19773060, 22394690, 12645492, 16750271, 28158962, 14353707, 19243384, 66084015, 68778393, 68778878>>
      [] c1 = <<57, 56, 73>> -> <<18302171, 65427872, 19516080, 20921382, 10545094, 18360999, 27209182, 12520813, 18079785, 65521050, 67906283, 67906614>>
      [] c1 = <<58, 55, 80>> -> <<20391521, 65896839, 19893813, 23189638, 13754237, 15955180, 28554046, 15382046, 20133331, 66037368, 68957781, 68958372>>
      [] c1 = <<70, 70, 70>> -> <<19519151, 57912221, 19429267, 15455168, 0, 27043942, 21489350, 9392086, 19512767, 57903461, 58849562, 58849265>>
      [] c1 = <<77, 79, 81>> -> <<22458146, 53547582, 21274733, 17514863, 3326502, 23120104, 18675400, 9480235, 22432849, 53548830, 54740340, 54740161>>
      [] c1 = <<77, 79, 83>> -> <<22595622, 53510846, 21087422, 17878539, 3911853, 23495008, 18729886, 9384245, 22546647, 53525475, 54962313, 54962200>>
      [] c1 = <<77, 79, 86>> -> <<22910369, 53498225, 20955133, 18648242, 5156640, 23182991, 18938964, 9623423, 22829356, 53532162, 55329457, 55329457>>
      [] c1 = <<78, 78, 88>> -> <<23182622, 53826930, 19913523, 18916195, 6598350, 23439272, 19508379, 11146779, 23068658, 53885566, 56423301, 56423512>>
      [] c1 = <<78, 78, 90>> -> <<23510318, 53865377, 20019349, 19539433, 7528712, 22759431, 19781175, 11600246, 23380641, 53937422, 56616955, 56617233>>
      [] c1 = <<78, 78, 92>> -> <<23860856, 53913504, 20152301, 20160058, 8430631, 22118371, 20079885, 12100719, 23717195, 53998874, 56803748, 56804087>>
      [] c1 = <<79, 77, 95>> -> <<24529409, 54349751, 19708356, 21027160, 10310555, 21284258, 21016027, 14017349, 24359488, 54464871, 57859355, 57859933>>
      [] c1 = <<79, 77, 97>> -> <<24920845, 54415547, 19953278, 21659150, 11104157, 20693678, 21354447, 14494672, 24741490, 54543530, 57998559, 57999178>>
      [] c1 = <<79, 77, 99>> -> <<25317034, 54483934, 20217550, 22280600, 11865500, 20137591, 21697504, 14957062, 25129360, 54624593, 58137096, 58137752>>
      [] c1 = <<80, 81, 89>> -> <<23771203, 52452341, 20592909, 18794785, 6097129, 24064633, 18325132, 10743401, 23680765, 52494217, 54722925, 54723027>>
      [] c1 = <<80, 82, 84>> -> <<23460746, 52107778, 21522610, 17776171, 4274333, 23653729, 17665947, 10128027, 23436201, 52109172, 53416865, 53416709>>
      [] c1 = <<80, 82, 86>> -> <<23593814, 52073362, 21342893, 18135840, 4750999, 24021663, 17724531, 10042597, 23546726, 52088420, 53646169, 53646080>>
      [] c1 = <<81, 80, 96>> -> <<24949516, 52939071, 20120573, 20746012, 9662881, 22209874, 19764370, 13442019, 24796882, 53041199, 56280040, 56280526>>
      [] c1 = <<81, 81, 91>> -> <<24147822, 52393036, 20188202, 19149656, 7099555, 23971645, 18535460, 11683187, 24038574, 52453000, 55131214, 55131454>>
      [] c1 = <<81, 81, 94>> -> <<24628154, 52460788, 20358969, 20071806, 8401254, 22996390, 18974749, 12349626, 24496792, 52541234, 55429011, 55429350>>
      [] c1 = <<82, 80, 99>> -> <<25619975, 52963754, 20104959, 21538692, 11002435, 21588466, 20278981, 14656067, 25451672, 53087885, 56666952, 56667584>>
      [] c1 = <<82, 80, 101>> -> <<26000122, 53036385, 20358045, 22159314, 11760019, 21035410, 20634268, 15114916, 25823097, 53173530, 56811870, 56812542>>
      [] c1 = <<83, 86, 87>> -> <<24727569, 50373807, 22102117, 18410586, 5570271, 24178115, 16416540, 10852181, 24717898, 50366610, 51559572, 51559469>>
      [] c1 = <<84, 84, 96>> -> <<25425349, 51037915, 20622776, 20045134, 8524190, 23899714, 17854881, 12700437, 25305864, 51113222, 54087872, 54088212>>
      [] c1 = <<84, 85, 90>> -> <<24755189, 50565146, 21004184, 18348477, 6006717, 25655204, 16697636, 11289884, 24697070, 50588858, 52652445, 52652463>>
      [] c1 = <<84, 85, 93>> -> <<25089143, 50582140, 21019780, 19194462, 7047078, 24815581, 16995687, 11628969, 25003515, 50625402, 53044412, 53044554>>
      [] c1 = <<85, 84, 99>> -> <<26022795, 51049851, 20467522, 20785759, 9866292, 23327827, 18343706, 13895633, 25883407, 51148100, 54553015, 54553520>>
      [] c1 = <<85, 84, 102>> -> <<26547285, 51156750, 20761730, 21703932, 11022269, 22473183, 18885954, 14598906, 26392024, 51275478, 54812436, 54813019>>
      [] c1 = <<86, 83, 105>> -> <<27196098, 51624467, 20532030, 22592761, 12612581, 21646001, 19935076, 16208981, 27021461, 51773289, 55812196, 55813001>>
      [] c1 = <<88, 90, 92>> -> <<26169426, 48420883, 22425013, 18759032, 6976629, 25250693, 14904120, 12157259, 26146622, 48422760, 50085560, 50085476>>
      [] c1 = <<88, 90, 95>> -> <<26373416, 48387899, 22212969, 19332669, 7511822, 25584202, 15046386, 12128709, 26321246, 48411312, 50470840, 50470867>>
      [] c1 = <<89, 89, 99>> -> <<26770807, 48722611, 21171347, 20044495, 8942745, 25562630, 15899637, 13439018, 26672559, 48786427, 51885972, 51886300>>
      [] c1 = <<89, 89, 102>> -> <<27204623, 48807055, 21344820, 20925985, 10007622, 24666718, 16406226, 14019275, 27086233, 48892487, 52210045, 52210477>>
      [] c1 = <<90, 60, 40>> -> <<24028474, 61625397, 11776135, 0, 15455168, 36916786, 27323637, 26303055, 24138912, 61608413, 67288284, 67289676>>
      [] c1 = <<90, 88, 105>> -> <<27740150, 49252474, 20867138, 21700350, 11515865, 23903937, 17470217, 15611260, 27596663, 49370041, 53342326, 53343016>>
      [] c1 = <<90, 88, 109>> -> <<28426953, 49422127, 21340325, 22906059, 12904805, 22867605, 18265717, 16458382, 28265882, 49567285, 53662627, 53663403>>
      [] c1 = <<95, 96, 103>> -> <<28689870, 45692699, 22625577, 20530026, 10043511, 27445178, 13089488, 14446543, 28622854, 45733298, 48645152, 48645382>>
      [] c1 = <<95, 97, 99>> -> <<28584018, 45362107, 23493647, 19940756, 9457845, 26841683, 12385112, 14202748, 28562490, 45364517, 47391127, 47391120>>
      [] c1 = <<96, 95, 111>> -> <<29735344, 46254991, 22224926, 22522109, 12643757, 25601314, 15092564, 16556433, 29608391, 46369203, 50488680, 50489361>>
      [] c1 = <<96, 96, 107>> -> <<29252044, 45709188, 22369915, 21417539, 11248023, 26860492, 13731211, 15445773, 29155388, 45784366, 49387210, 49387666>>
      [] c1 = <<97, 95, 115>> -> <<30473347, 46379427, 22363725, 23560173, 14033995, 24878228, 15997585, 17769566, 30328309, 46525159, 51043905, 51044764>>
      [] c1 = <<99, 101, 103>> -> <<29983604, 43678560, 24215813, 20740286, 10913005, 27826261, 10893071, 15457530, 29962725, 43681321, 45938014, 45938057>>
      [] c1 = <<99, 101, 105>> -> <<30096686, 43657833, 24085711, 21058895, 11132153, 28149791, 11002350, 15423286, 30058721, 43676309, 46214405, 46214522>>
      [] c1 = <<100, 50, 50>> -> <<26258614, 63792566, 0, 11776135, 19429267, 29816790, 30225406, 31022230, 26229563, 63902970, 76217304, 76220065>>
      [] c1 = <<100, 100, 110>> -> <<30492620, 44005085, 23086215, 21886247, 12222365, 28125573, 12179566, 16444513, 30406569, 44075001, 47862110, 47862586>>
      [] c1 = <<100, 100, 112>> -> <<30743448, 44073656, 23196170, 22426528, 12752227, 27589223, 12606842, 16753834, 30645256, 44159177, 48103985, 48104536>>
      [] c1 = <<100, 101, 107>> -> <<30327909, 43580433, 23555993, 21245532, 11539624, 28886384, 11153587, 15886109, 30272024, 43615624, 46712623, 46712875>>
      [] c1 = <<101, 99, 116>> -> <<31318933, 44577214, 22803501, 23376381, 14155269, 26644858, 14114366, 18203985, 31192528, 44705133, 49410795, 49411648>>
      [] c1 = <<101, 99, 118>> -> <<31621164, 44678856, 23018766, 23941062, 14735113, 26177863, 14599515, 18572487, 31486270, 44821730, 49590839, 49591739>>
      [] c1 = <<101, 100, 114>> -> <<31114362, 44089184, 23019295, 22836033, 13440014, 27398115, 13069616, 17517535, 31004288, 44192659, 48557738, 48558436>>
      [] c1 = <<105, 106, 111>> -> <<32008200, 41537079, 24611009, 22118025, 13172758, 30370338, 9153360, 17444427, 31962467, 41566312, 44855077, 44855354>>
      [] c1 = <<105, 106, 113>> -> <<32178748, 41564919, 24633254, 22589255, 13507556, 29933582, 9495169, 17584712, 32118815, 41609542, 45176499, 45176869>>
      [] c1 = <<105, 107, 108>> -> <<32073643, 41255358, 25233539, 21846532, 13087810, 29509558, 8566771, 17492337, 32061844, 41250346, 43741882, 43741994>>
      [] c1 = <<106, 105, 118>> -> <<32693974, 42030246, 24032524, 23589237, 14736207, 28993540, 11246449, 18818135, 32594862, 42130073, 46809673, 46810420>>
      [] c1 = <<106, 105, 121>> -> <<33094608, 42176765, 24275586, 24388075, 15499699, 28280712, 12058619, 19312262, 32981011, 42300507, 47133764, 47134603>>
      [] c1 = <<106, 106, 116>> -> <<32579356, 41576191, 24383221, 23163365, 14232227, 29691014, 10140787, 18299736, 32498866, 41649871, 45864492, 45865061>>
      [] c1 = <<107, 105, 123>> -> <<33482244, 42228780, 24215236, 24828768, 16156851, 28080288, 12643138, 20038459, 33359651, 42370839, 47559575, 47560553>>
      [] c1 = <<112, 113, 118>> -> <<34522788, 38795624, 26285154, 23883796, 15796536, 32263814, 6532781, 19841685, 34480100, 38827172, 42626010, 42626397>>
      [] c1 = <<112, 114, 115>> -> <<34602112, 38518115, 26881141, 23661573, 15767604, 31474239, 5785917, 19917179, 34590553, 38513412, 41484686, 41484904>>
      [] c1 = <<113, 112, 127>> -> <<35395801, 39423125, 25902054, 25737234, 17542283, 30541364, 9859099, 21329622, 35294528, 39546019, 44889995, 44890928>>
      [] c1 = <<113, 113, 121>> -> <<34863942, 38788875, 26014481, 24399016, 16354120, 32152592, 7291188, 20406162, 34800644, 38850031, 43417847, 43418449>>
      [] c1 = <<113, 113, 124>> -> <<35174114, 38901136, 26153682, 25112316, 16914267, 31421218, 8233570, 20739756, 35093962, 38988275, 43834863, 43835589>>
      [] c1 = <<114, 112, 130>> -> <<35893245, 39549844, 25945007, 26413721, 18361590, 30162281, 10898671, 22150947, 35779165, 39700344, 45460035, 45461140>>
      [] c1 = <<121, 123, 125>> -> <<37966086, 35150134, 29495548, 26513478, 19379661, 34120595, 2472296, 23185228, 37948063, 35155509, 38976272, 38976653>>
      [] c1 = <<122, 122, 131>> -> <<38250757, 35493042, 28564746, 27169814, 19946637, 34607175, 5405338, 23711134, 38187486, 35569252, 41013270, 41014079>>
      [] c1 = <<122, 123, 127>> -> <<38142860, 35066459, 29027370, 26581836, 19607020, 35370433, 2964251, 23451396, 38110063, 35092733, 39538530, 39539038>>
      [] c1 = <<122, 123, 128>> -> <<38207403, 35078759, 29033837, 26773977, 19707818, 35220223, 3383256, 23488741, 38168449, 35114114, 39733804, 39734365>>
      [] c1 = <<122, 123, 129>> -> <<38279012, 35098354, 29048253, 26971053, 19821744, 35047178, 3825478, 23540563, 38234110, 35142647, 39920920, 39921532>>
      [] c1 = <<123, 121, 138>> -> <<38968210, 36210652, 28375878, 28540525, 21268099, 33211629, 9078507, 24984982, 38867344, 36364475, 42899752, 42901006>>
      [] c1 = <<123, 122, 133>> -> <<38546704, 35532278, 28427682, 27516424, 20392662, 34498734, 6389533, 24246419, 38472505, 35629984, 41632950, 41633933>>
      [] c1 = <<123, 122, 135>> -> <<38760872, 35643267, 28556186, 27969107, 20745177, 34071240, 7249303, 24480659, 38677547, 35759390, 41882830, 41883886>>
      [] c1 = <<123, 122, 136>> -> <<38873016, 35703843, 28627092, 28196920, 20929119, 33870777, 7668864, 24606954, 38785403, 35829082, 42007339, 42008429>>
      [] c1 = <<128, 128, 128>> -> <<39934472, 33238954, 30225406, 27323637, 21489350, 39108077, 0, 25627427, 39926510, 33229996, 37564019, 37564398>>
      [] c1 = <<130, 131, 133>> -> <<41074619, 32237403, 31514671, 28859729, 22743634, 37983074, 1611073, 26514559, 41055755, 32246540, 37016095, 37016638>>
      [] c1 = <<130, 131, 135>> -> <<41176638, 32243458, 31502342, 29190194, 22886823, 37923730, 2532896, 26544015, 41145911, 32272593, 37449691, 37450351>>
      [] c1 = <<130, 131, 138>> -> <<41380927, 32314719, 31553589, 29735934, 23191101, 37466219, 4033481, 26691010, 41333809, 32372661, 38044869, 38045685>>
      [] c1 = <<131, 130, 140>> -> <<41445879, 32682572, 30895914, 29821982, 23398853, 37327651, 5678059, 27133688, 41381519, 32778304, 39500451, 39501554>>
      [] c1 = <<131, 130, 143>> -> <<41743114, 32863735, 31077422, 30448964, 23858967, 36732238, 7044296, 27444925, 41665814, 32989057, 39897339, 39898557>>
      [] c1 = <<131, 130, 145>> -> <<41957023, 33002783, 31218781, 30872746, 24189391, 36377042, 7907256, 27680017, 41871916, 33147459, 40160385, 40161670>>
      [] c1 = <<135, 136, 138>> -> <<43012081, 30533364, 33174644, 30622421, 24864476, 39660670, 3148093, 28520776, 42993792, 30543536, 35798492, 35799134>>
      [] c1 = <<135, 136, 142>> -> <<43239272, 30588851, 33200070, 31280796, 25182726, 39335406, 4479463, 28638521, 43199166, 30640284, 36665999, 36666868>>
      [] c1 = <<136, 135, 146>> -> <<43455360, 31059084, 32646990, 31722645, 25597345, 38844773, 6691433, 29183137, 43389548, 31170256, 38485221, 38486469>>
      [] c1 = <<136, 135, 150>> -> <<43856858, 31342375, 32909227, 32527851, 26198257, 38146513, 8348746, 29609816, 43775505, 31494204, 39030759, 39032151>>
      [] c1 = <<140, 142, 143>> -> <<45264549, 28639299, 35446206, 32871715, 27347399, 40700919, 5046800, 30810996, 45253932, 28636639, 34079813, 34080555>>
      [] c1 = <<141, 141, 149>> -> <<45442647, 28970632, 34817343, 33372346, 27652771, 41231749, 6586053, 31091299, 45393716, 29052601, 36323940, 36325093>>
      [] c1 = <<141, 142, 146>> -> <<45477675, 28564344, 35284489, 33147920, 27605578, 41721335, 5539751, 31043255, 45449442, 28598143, 34906570, 34907457>>
      [] c1 = <<142, 140, 155>> -> <<45897577, 29698929, 34550250, 34247650, 28398696, 40202895, 9253708, 31888540, 45819210, 29861992, 38317530, 38319130>>
      [] c1 = <<142, 141, 152>> -> <<45796752, 29107026, 34795054, 33872615, 28136538, 41001049, 7817459, 31612337, 45734301, 29225428, 37209466, 37210844>>
      [] c1 = <<143, 145, 146>> -> <<46464801, 27669721, 36534407, 34021354, 28677344, 41813342, 6044730, 32087365, 46454290, 27667373, 33432574, 33433381>>
      [] c1 = <<144, 144, 151>> -> <<46561040, 27959983, 35887398, 34329008, 28859692, 42514212, 7060248, 32286947, 46517754, 28033356, 35528574, 35529744>>
      [] c1 = <<144, 144, 153>> -> <<46715389, 28065619, 35969386, 34676909, 29076887, 42154770, 7688354, 32426266, 46663393, 28161837, 35885594, 35886859>>
      [] c1 = <<144, 145, 148>> -> <<46626098, 27584911, 36380727, 34146945, 28865170, 42883971, 6293845, 32294488, 46603552, 27608783, 34041356, 34042250>>
      [] c1 = <<145, 143, 157>> -> <<46976500, 28671817, 35593952, 35152622, 29530553, 41484592, 9465016, 33010283, 46903507, 28829184, 37605505, 37607139>>
      [] c1 = <<145, 144, 155>> -> <<46986273, 28156034, 35914419, 34993979, 29436602, 42114670, 8496327, 32862026, 46925402, 28278331, 36612176, 36613621>>
      [] c1 = <<155, 155, 162>> -> <<51050675, 24558649, 40193246, 38716465, 33804261, 46727315, 10210276, 37100374, 51011041, 24642645, 33491681, 33493099>>
      [] c1 = <<155, 156, 157>> -> <<51054439, 24164691, 40656068, 38366198, 33749919, 46845057, 9596744, 37131522, 51043043, 24166974, 31462778, 31463798>>
      [] c1 = <<155, 156, 160>> -> <<51189060, 24187133, 40679026, 38733040, 33914458, 47032299, 9885922, 37179011, 51163566, 24228457, 32200752, 32201954>>
      [] c1 = <<156, 155, 164>> -> <<51298572, 24648789, 40150579, 39008146, 34113978, 46716791, 10780325, 37481521, 51250275, 24762200, 34340306, 34341917>>
      [] c1 = <<156, 155, 165>> -> <<51377862, 24723867, 40201126, 39171911, 34219656, 46555648, 11023331, 37555548, 51325866, 24849870, 34493547, 34495200>>
      [] c1 = <<156, 155, 167>> -> <<51545790, 24891450, 40312366, 39504423, 34444256, 46257133, 11534482, 37719089, 51486776, 25042230, 34801151, 34802885>>
      [] c1 = <<166, 166, 172>> -> <<55659644, 21289473, 44703636, 43133341, 38573935, 51423962, 13176452, 42063716, 55627000, 21372103, 31594131, 31595755>>
      [] c1 = <<166, 167, 168>> -> <<55748916, 20926018, 45167975, 42978643, 38614136, 51401737, 12900753, 42167880, 55738096, 20930514, 29696548, 29697828>>
      [] c1 = <<166, 167, 170>> -> <<55832797, 20937349, 45184799, 43187108, 38703721, 51634883, 13029199, 42193800, 55813350, 20971756, 30211585, 30212987>>
      [] c1 = <<167, 166, 175>> -> <<55968451, 21472492, 44719135, 43544760, 38925661, 51292896, 13785331, 42469657, 55924172, 21602779, 32701193, 32703058>>
      [] c1 = <<167, 166, 177>> -> <<56122731, 21656342, 44818893, 43841747, 39114362, 51019314, 14176527, 42611375, 56071831, 21814614, 33024632, 33026580>>
      [] c1 = <<169, 170, 171>> -> <<57063202, 20072747, 46379038, 44184929, 39822158, 52703321, 13763974, 43528863, 57052546, 20077955, 29275549, 29276901>>
      [] c1 = <<169, 170, 174>> -> <<57197075, 20114720, 46410317, 44506357, 39960322, 52889662, 13977330, 43582798, 57173992, 20166111, 30067361, 30068894>>
      [] c1 = <<170, 169, 177>> -> <<57204925, 20553780, 45899261, 44592210, 40038023, 52742341, 14420363, 43757677, 57165061, 20674617, 32149817, 32151707>>
      [] c1 = <<170, 169, 180>> -> <<57429217, 20831275, 46040068, 45021004, 40302578, 52335948, 14961870, 43957000, 57379500, 20995734, 32639360, 32641376>>
      [] c1 = <<175, 175, 181>> -> <<59634545, 18788989, 48240466, 46564063, 41967433, 55378139, 15656383, 46034178, 59604035, 18883351, 30454605, 30456440>>
      [] c1 = <<175, 176, 177>> -> <<59738246, 18402661, 48660502, 46410525, 41986000, 55378211, 15444986, 46130323, 59727927, 18409465, 28510154, 28511651>>
      [] c1 = <<176, 175, 185>> -> <<60013685, 19114206, 48289792, 47061584, 42346635, 55157636, 16342262, 46462098, 59969260, 19276993, 31772428, 31774542>>
      [] c1 = <<180, 180, 184>> -> <<61791732, 17327590, 49900979, 47947939, 43412225, 57931843, 16782270, 47932265, 61769343, 17394397, 29445719, 29447563>>
      [] c1 = <<180, 180, 186>> -> <<61905401, 17448705, 49948291, 48178341, 43519725, 57659110, 16987281, 48000319, 61876016, 17550751, 29915777, 29917727>>
      [] c1 = <<180, 181, 181>> -> <<61982308, 17061438, 50417076, 47939142, 43502314, 58417812, 16777547, 48089216, 61976211, 17051434, 27724390, 27726017>>
      [] c1 = <<181, 180, 189>> -> <<62210269, 17697764, 49939771, 48513521, 43792183, 57581158, 17472816, 48336503, 62170528, 17856036, 31087742, 31089926>>
      [] c1 = <<188, 188, 193>> -> <<65580508, 15296134, 52177457, 50203040, 45561961, 61484078, 18950399, 50570399, 65556087, 15393168, 28953591, 28955671>>
      [] c1 = <<188, 189, 190>> -> <<65762815, 14941335, 52545621, 50137647, 45604585, 61382563, 18894036, 50650174, 65753295, 14952639, 27193314, 27195122>>
      [] c1 = <<188, 189, 192>> -> <<65848775, 14974946, 52545954, 50296902, 45662858, 61592895, 18987750, 50656956, 65832103, 15027054, 27753966, 27755891>>
      [] c1 = <<189, 188, 194>> -> <<65747449, 15353628, 52083729, 50270339, 45674636, 61670294, 19128109, 50770302, 65719101, 15476031, 29885643, 29887871>>
      [] c1 = <<189, 188, 196>> -> <<65874982, 15554157, 52135261, 50493762, 45791061, 61418113, 19357252, 50844162, 65840532, 15714597, 30218002, 30220318>>
      [] c1 = <<197, 198, 199>> -> <<70135658, 12662250, 54520508, 52097201, 47619301, 65334919, 21140338, 52862411, 70126762, 12677900, 26544216, 26546230>>
      [] c1 = <<198, 197, 205>> -> <<70235765, 13366249, 54129898, 52437674, 47795690, 65372570, 21547697, 53047607, 70203664, 13553274, 29614077, 29616581>>
      [] c1 = <<198, 198, 202>> -> <<70380462, 12724827, 54373741, 52275817, 47755725, 65969150, 21346112, 53009394, 70360951, 12818879, 28010969, 28013215>>
      [] c1 = <<205, 205, 206>> -> <<73771321, 10895279, 55697209, 53366057, 49104196, 68904675, 22861622, 54421434, 73762135, 10922580, 26761685, 26763900>>
      [] c1 = <<205, 205, 208>> -> <<73862310, 10968789, 55707729, 53542478, 49157610, 68600693, 22947597, 54428142, 73846893, 11051533, 27394672, 27397008>>
      [] c1 = <<205, 205, 211>> -> <<74025901, 11246232, 55744309, 53823762, 49276449, 68232501, 23158159, 54478460, 74001768, 11407594, 28164133, 28166620>>
      [] c1 = <<210, 210, 213>> -> <<76458666, 9791717, 56614507, 54469184, 50143418, 70004314, 24101542, 55376488, 76443922, 9885581, 27214093, 27216526>>
      [] c1 = <<210, 211, 211>> -> <<76742788, 9534962, 57020309, 54514685, 50230063, 70201135, 24181760, 55459292, 76737988, 9528166, 25718488, 25720794>>
      [] c1 = <<211, 210, 216>> -> <<76741142, 10107051, 56536865, 54700817, 50309753, 69869283, 24370221, 55562032, 76717423, 10295444, 28716481, 28719147>>
      [] c1 = <<215, 215, 216>> -> <<79025072, 8540546, 57481820, 55199523, 51050796, 71432683, 25147905, 56280708, 79016758, 8578875, 26448601, 26451011>>
      [] c1 = <<215, 215, 220>> -> <<79225380, 8858629, 57511217, 55545201, 51171684, 70870144, 25345518, 56311562, 79205840, 9030998, 27618506, 27621131>>
      [] c1 = <<221, 222, 222>> -> <<82695104, 7011819, 58899308, 56458370, 52299661, 72362693, 26619081, 57416042, 82690901, 7007744, 25520273, 25522783>>
      [] c1 = <<222, 221, 225>> -> <<82568664, 7422890, 58409375, 56456445, 52296045, 72328443, 26652710, 57480145, 82552085, 7600591, 28230050, 28232816>>
      [] c1 = <<226, 226, 227>> -> <<85091927, 6063688, 59331568, 57105582, 53075424, 73298524, 27533824, 58187251, 85084389, 6122807, 26346261, 26348858>>
      [] c1 = <<226, 226, 230>> -> <<85240288, 6354775, 59348346, 57350337, 53154202, 72864173, 27656121, 58201031, 85224883, 6550445, 27259797, 27262553>>
      [] c1 = <<230, 230, 230>> -> <<87315666, 5178324, 59981156, 57698754, 53769339, 74117695, 28349877, 58859665, 87310869, 5191969, 25784243, 25786793>>
      [] c1 = <<230, 230, 233>> -> <<87454591, 5375932, 59989311, 57933156, 53831589, 73570447, 28440372, 58858416, 87441940, 5553733, 27004763, 27007530>>
      [] c1 = <<232, 233, 233>> -> <<88905380, 4603975, 60681249, 58301768, 54258347, 73974087, 28928168, 59260107, 88901073, 4605336, 25565588, 25568273>>
      [] c1 = <<233, 232, 235>> -> <<88718733, 4985725, 60202362, 58216932, 54223688, 74093541, 28906309, 59312997, 88705481, 5193477, 28187198, 28190086>>
      [] c1 = <<255, 255, 254>> -> <<99976557, 537154, 63902970, 61608413, 57903461, 77586542, 33229996, 62792821, 99960079, 0, 26405669, 26408658>>
      [] c1 = <<255, 255, 255>> -> <<100000004, 0, 63792566, 61625397, 57912221, 77296359, 33238954, 62764925, 99981098, 537154, 26506824, 26509672>>

\* color_matching.rs:115-120, compared through the sum under the square root
euclidean_distance(c1, c2) ==
    LET dr == c1[1] - c2[1]
        dg == c1[2] - c2[2]
        db == c1[3] - c2[3]
    IN dr * dr + dg * dg + db * db

\* A variant of the weighted distance whose mean red is the red of c1 alone
\* (color_matching.rs:125): MetricContractButCie94 fails of it.
weighted_rgb_distance_c1(c1, c2) ==
    LET rsum == 2 * c1[1]
        dr == c1[1] - c2[1]
        dg == c1[2] - c2[2]
        db == c1[3] - c2[3]
    IN (1024 + rsum) * dr * dr + 2048 * dg * dg + (1024 + 510 - rsum) * db * db

\* color_matching.rs:124-136.  The weights are multiples of 1/512; the model
\* keeps 512 times the sum under the square root, which f64 computes exactly.
weighted_rgb_distance(c1, c2) ==
    LET rsum == c1[1] + c2[1]
        dr == c1[1] - c2[1]
        dg == c1[2] - c2[2]
        db == c1[3] - c2[3]
    IN (1024 + rsum) * dr * dr + 2048 * dg * dg + (1024 + 510 - rsum) * db * db

delta_e76(c1, c2) == DeltaE76Row(c1)[CatalogColorIndex(c2)]
delta_e94(c1, c2) == DeltaE94Row(c1)[CatalogColorIndex(c2)]
delta_e2000(c1, c2) == DeltaE2000Row(c1)[CatalogColorIndex(c2)]

\* color_matching.rs:277-285; each algorithm in its own unit
threads_color_distance(c1, c2, alg) ==
    CASE alg = "Euclidean" -> euclidean_distance(c1, c2)
      [] alg = "Weighted" -> weighted_rgb_distance(c1, c2)
      [] alg = "Cie76" -> delta_e76(c1, c2)
      [] alg = "Cie94" -> delta_e94(c1, c2)
      [] alg = "Ciede2000" -> delta_e2000(c1, c2)

None == [none |-> TRUE]

\* f64::MAX as the initial best distance: above every distance
BestDistanceMax == 2147483647

\* A variant of the scan that compares with "<=" and so keeps the last of
\* the nearest entries: NearestFirst fails of it.
RECURSIVE threads_find_last_loop(_, _, _, _, _, _)
threads_find_last_loop(target, tp, alg, i, best_distance, best_match) ==
    IF i > Len(tp) THEN best_match
    ELSE LET distance == threads_color_distance(target, tp[i][2], alg)
         IN IF distance <= best_distance
            THEN threads_find_last_loop(target, tp, alg, i + 1, distance,
                     [color |-> tp[i][2], color_id |-> tp[i][1],
                      distance |-> distance, name |-> tp[i][3]])
            ELSE threads_find_last_loop(target, tp, alg, i + 1, best_distance, best_match)

\* color_matching.rs:309-320; an entry of the thread palette is <<id, rgb, name>>
RECURSIVE threads_find_closest_loop(_, _, _, _, _, _)
threads_find_closest_loop(target, tp, alg, i, best_distance, best_match) ==
    IF i > Len(tp) THEN best_match
    ELSE LET distance == threads_color_distance(target, tp[i][2], alg)
         IN IF distance < best_distance
            THEN threads_find_closest_loop(target, tp, alg, i + 1, distance,
                     [color |-> tp[i][2], color_id |-> tp[i][1],
                      distance |-> distance, name |-> tp[i][3]])
            ELSE threads_find_closest_loop(target, tp, alg, i + 1, best_distance, best_match)

\* color_matching.rs:297-323
threads_find_closest_color(target, tp, alg) ==
    IF tp = <<>> THEN None
    ELSE threads_find_closest_loop(target, tp, alg, 1, BestDistanceMax, None)

----------------------------------------------------------------------------
(* process_image_with_threads: the matcher *)

\* lib.rs:589-596
ThreadPalette(thread_colors) ==
    [i \in 1..Len(thread_colors) |->
        << thread_colors[i].brand \o "-" \o thread_colors[i].code,
           thread_colors[i].rgb,
           thread_colors[i].name >>]

\* lib.rs:618-619, 626
RECURSIVE ThreadCodeLoop(_, _, _)
ThreadCodeLoop(thread_colors, color_id, i) ==
    IF i > Len(thread_colors) THEN None
    ELSE IF thread_colors[i].brand \o "-" \o thread_colors[i].code = color_id
         THEN thread_colors[i].code
         ELSE ThreadCodeLoop(thread_colors, color_id, i + 1)

\* m = [matched_colors, color_id_map, seen_thread_ids]
NoMatches == [matched_colors |-> <<>>,
              color_id_map |-> [k \in {} |-> ""],
              seen_thread_ids |-> [k \in {} |-> 0]]

\* A variant of the matcher without the seen_thread_ids test of lib.rs:612:
\* Deduplication fails of it.
RecordMatchAlwaysNew(m, i, match_result, thread_colors, b) ==
    LET color_id == match_result.color_id \o "-color-" \o ToString(i + 1)
        color == [id |-> color_id,
                  name |-> match_result.name,
                  rgb |-> match_result.color,
                  thread_brand |-> b,
                  thread_code |-> ThreadCodeLoop(thread_colors, match_result.color_id, 1)]
    IN [matched_colors |-> Append(m.matched_colors, color),
        color_id_map |-> (i :> color_id) @@ m.color_id_map,
        seen_thread_ids |->
            (match_result.color_id :> Len(m.matched_colors)) @@ m.seen_thread_ids]

\* lib.rs:612-633: palette entry i (0-based) matched to match_result
RecordMatch(m, i, match_result, thread_colors, b) ==
    IF match_result.color_id \in DOMAIN m.seen_thread_ids
    THEN LET existing_idx == m.seen_thread_ids[match_result.color_id]
         IN [m EXCEPT !.color_id_map =
                 (i :> m.matched_colors[existing_idx + 1].id) @@ m.color_id_map]
    ELSE LET color_id == match_result.color_id \o "-color-" \o ToString(i + 1)
             color == [id |-> color_id,
                       name |-> match_result.name,
                       rgb |-> match_result.color,
                       thread_brand |-> b,
                       thread_code |-> ThreadCodeLoop(thread_colors, match_result.color_id, 1)]
         IN [matched_colors |-> Append(m.matched_colors, color),
             color_id_map |-> (i :> color_id) @@ m.color_id_map,
             seen_thread_ids |->
                 (match_result.color_id :> Len(m.matched_colors)) @@ m.seen_thread_ids]

\* lib.rs:603-635
RECURSIVE MatchLoop(_, _, _, _, _, _)
MatchLoop(pal, thread_colors, b, alg, i, m) ==
    IF i >= Len(pal) THEN m
    ELSE IF is_transparent(pal[i + 1])
         THEN MatchLoop(pal, thread_colors, b, alg, i + 1, m)
         ELSE LET rgb == <<pal[i + 1][1], pal[i + 1][2], pal[i + 1][3]>>
                  match_result ==
                      threads_find_closest_color(rgb, ThreadPalette(thread_colors), alg)
              IN IF match_result = None
                 THEN MatchLoop(pal, thread_colors, b, alg, i + 1, m)
                 ELSE MatchLoop(pal, thread_colors, b, alg, i + 1,
                                RecordMatch(m, i, match_result, thread_colors, b))

MatchPalette(pal, thread_colors, b, alg) ==
    MatchLoop(pal, thread_colors, b, alg, 0, NoMatches)

\* no call of color_distance on its own
MetricIdle ==
    /\ color_a = <<>>
    /\ color_b = <<>>
    /\ metric = ""
    /\ measured = -1
    /\ found_idx = -1

\* an Option: None is the empty sequence, Some(v) holds v
Absent == <<>>

Some(v) == <<v>>

\* no licensing command has run
LicenseIdle ==
    /\ license_file = Absent
    /\ LICENSE_STATE_CACHE = Absent
    /\ utc_now = 0
    /\ command = ""
    /\ state = Absent
    /\ returned = Absent

MatchIdle ==
    /\ thread_brand = ""
    /\ color_match_algorithm = ""
    /\ brand = ""
    /\ algorithm = ""
    /\ colors = <<>>
    /\ color_id_map = [k \in {} |-> ""]

\* lib.rs:571-635
MatchThreads ==
    /\ pc = "dithered"
    /\ entry = "process_image_with_threads"
    /\ \E tb \in ThreadBrandNames, cma \in AlgorithmNames :
        /\ thread_brand' = tb
        /\ color_match_algorithm' = cma
        /\ brand' = ParseThreadBrand(tb)
        /\ algorithm' = ParseAlgorithm(cma)
        /\ LET m == MatchPalette(palette, get_threads_by_brand(ParseThreadBrand(tb)),
                                 ParseThreadBrand(tb), ParseAlgorithm(cma))
           IN /\ colors' = m.matched_colors
              /\ color_id_map' = m.color_id_map
    /\ pc' = "matched"
    /\ UNCHANGED <<metricVars, licenseVars, inputs, quantizeVars, ditherVars, outputVars>>

----------------------------------------------------------------------------
(* The pixel assigner and the results *)

RGB(pixel) == <<pixel[1], pixel[2], pixel[3]>>

\* lib.rs:457-469
RECURSIVE PlainColorsLoop(_, _, _)
PlainColorsLoop(pal, i, acc) ==
    IF i >= Len(pal) THEN acc
    ELSE IF is_transparent(pal[i + 1])
         THEN PlainColorsLoop(pal, i + 1, acc)
         ELSE PlainColorsLoop(pal, i + 1,
                  Append(acc, [id |-> "color-" \o ToString(i + 1),
                               name |-> "Color " \o ToString(i + 1),
                               rgb |-> RGB(pal[i + 1]),
                               thread_brand |-> None,
                               thread_code |-> None]))

PlainColors(pal) == PlainColorsLoop(pal, 0, <<>>)

\* HashMap::insert: a later entry with the same key replaces the earlier one
Insert(map, key, value) == (key :> value) @@ map

\* lib.rs:473-478: collect() inserts the entries in palette order
RECURSIVE PlainCacheLoop(_, _, _)
PlainCacheLoop(pal, i, cache) ==
    IF i >= Len(pal) THEN cache
    ELSE IF is_transparent(pal[i + 1])
         THEN PlainCacheLoop(pal, i + 1, cache)
         ELSE PlainCacheLoop(pal, i + 1,
                  Insert(cache, RGB(pal[i + 1]), "color-" \o ToString(i + 1)))

EmptyCache == [k \in {} |-> ""]

\* A variant of the cache without the first palette color; CacheNeverMisses
\* fails of it.
PlainCacheSkipsFirst(pal) == PlainCacheLoop(pal, 1, EmptyCache)

PlainCache(pal) == PlainCacheLoop(pal, 0, EmptyCache)

\* lib.rs:639-649
RECURSIVE ThreadCacheLoop(_, _, _, _)
ThreadCacheLoop(pal, idmap, i, cache) ==
    IF i >= Len(pal) THEN cache
    ELSE IF is_transparent(pal[i + 1]) \/ i \notin DOMAIN idmap
         THEN ThreadCacheLoop(pal, idmap, i + 1, cache)
         ELSE ThreadCacheLoop(pal, idmap, i + 1, Insert(cache, RGB(pal[i + 1]), idmap[i]))

ThreadCache(pal, idmap) == ThreadCacheLoop(pal, idmap, 0, EmptyCache)

\* lib.rs:495-500: the fallback of process_image
PlainFallback(pixel, pal, cols) ==
    LET color_idx == find_closest_color(pixel, pal)
    IN IF color_idx < Len(cols) THEN cols[color_idx + 1].id ELSE ""

\* lib.rs:709-725: the same scan as find_closest_color
find_closest_color_idx(pixel, pal) == find_closest_color_loop(pixel, pal, 0, DistMax, 0)

\* lib.rs:666-671: the fallback of process_image_with_threads
ThreadFallback(pixel, pal, idmap) ==
    LET color_idx == find_closest_color_idx(pixel, pal)
    IN IF color_idx \in DOMAIN idmap THEN idmap[color_idx] ELSE ""

\* A variant of the assigner without the background test of lib.rs:486:
\* Totality fails of it.
PlainCellKeepsBackground(pixel, pal, cols, cache, rb, threshold) ==
    IF is_transparent(pixel)
    THEN ""
    ELSE IF RGB(pixel) \in DOMAIN cache
         THEN cache[RGB(pixel)]
         ELSE PlainFallback(pixel, pal, cols)

\* lib.rs:485-502
PlainCell(pixel, pal, cols, cache, rb, threshold) ==
    IF is_transparent(pixel) \/ (rb /\ is_background(pixel, threshold))
    THEN ""
    ELSE IF RGB(pixel) \in DOMAIN cache
         THEN cache[RGB(pixel)]
         ELSE PlainFallback(pixel, pal, cols)

\* lib.rs:656-673
ThreadCell(pixel, pal, idmap, cache, rb, threshold) ==
    IF is_transparent(pixel) \/ (rb /\ is_background(pixel, threshold))
    THEN ""
    ELSE IF RGB(pixel) \in DOMAIN cache
         THEN cache[RGB(pixel)]
         ELSE ThreadFallback(pixel, pal, idmap)

\* get_pixel(x, y) of a row-major raster
GetPixel(img, x, y, width) == img[y * width + x + 1]

\* lib.rs:686: matched_colors.iter().find(|c| &c.id == color_id)
RECURSIVE FindColorById(_, _, _)
FindColorById(cols, color_id, i) ==
    IF i > Len(cols) THEN None
    ELSE IF cols[i].id = color_id THEN cols[i]
    ELSE FindColorById(cols, color_id, i + 1)

\* lib.rs:682-691
PreviewPixel(color_id, cols) ==
    IF color_id = "" THEN <<0, 0, 0, 0>>
    ELSE LET color == FindColorById(cols, color_id, 1)
         IN IF color # None
            THEN <<color.rgb[1], color.rgb[2], color.rgb[3], 255>>
            ELSE <<128, 128, 128, 255>>

\* lib.rs:1240-1245: image_to_base64 returns what write_to of the image
\* crate returns.  A raster with pixels is written; what the PNG encoder does
\* with an image of width or height 0 is outside the source, so both
\* outcomes are kept.
EncodeOutcomes(width, height) ==
    IF width = 0 \/ height = 0 THEN {"Ok", "Failed to encode image"} ELSE {"Ok"}

\* lib.rs:508 and 695: the ? on image_to_base64
ReturnEncoded ==
    \E outcome \in EncodeOutcomes(target_width, target_height) :
        IF outcome = "Ok"
        THEN pc' = "done" /\ failure' = ""
        ELSE pc' = "failed" /\ failure' = outcome

OutputIdle ==
    /\ palette_cache = EmptyCache
    /\ pixels = <<>>
    /\ preview = <<>>
    /\ failure = ""

\* lib.rs:456-517.  The preview is the PNG of the dithered raster; PNG keeps
\* every RGBA sample, so the model holds the raster that is encoded.
ProcessImageFinish ==
    /\ pc = "dithered"
    /\ entry = "process_image"
    /\ LET cols == PlainColors(palette)
           cache == PlainCache(palette)
       IN /\ colors' = cols
          /\ palette_cache' = cache
          /\ pixels' = [row \in 1..target_height |->
                           [col \in 1..target_width |->
                               PlainCell(GetPixel(dithered, col - 1, row - 1, target_width),
                                         palette, cols, cache,
                                         remove_background, background_threshold)]]
    /\ preview' = dithered
    /\ ReturnEncoded
    /\ UNCHANGED <<metricVars, licenseVars, inputs, quantizeVars, ditherVars, thread_brand, color_match_algorithm,
                   brand, algorithm, color_id_map>>

\* lib.rs:637-706
ProcessImageWithThreadsFinish ==
    /\ pc = "matched"
    /\ LET cache == ThreadCache(palette, color_id_map)
           grid == [row \in 1..target_height |->
                       [col \in 1..target_width |->
                           ThreadCell(GetPixel(dithered, col - 1, row - 1, target_width),
                                      palette, color_id_map, cache,
                                      remove_background, background_threshold)]]
       IN /\ palette_cache' = cache
          /\ pixels' = grid
          /\ preview' = [i \in 1..(target_width * target_height) |->
                            PreviewPixel(grid[((i - 1) \div target_width) + 1]
                                             [((i - 1) % target_width) + 1], colors)]
    /\ ReturnEncoded
    /\ UNCHANGED <<metricVars, licenseVars, inputs, quantizeVars, ditherVars, matchVars>>

----------------------------------------------------------------------------
Init ==
    /\ entry \in {"process_image", "process_image_with_threads"}
    /\ target_width \in 0..MaxWidth
    /\ target_height \in 0..MaxHeight
    /\ max_colors \in 0..MaxColors
    /\ \/ remove_background = FALSE /\ background_threshold = 0
       \/ remove_background = TRUE /\ background_threshold \in Thresholds
    /\ rgba \in Rasters(PixelValues, target_width * target_height)
    /\ pc = "quantize_colors"
    /\ qpixels = <<>>
    /\ buckets = <<>>
    /\ palette = <<>>
    /\ quantized = <<>>
    /\ DitherIdle
    /\ MatchIdle
    /\ OutputIdle
    /\ MetricIdle
    /\ LicenseIdle

\* lib.rs:1288-1298: collect the pixels; no pixel gives the input back with an empty palette
QuantizeCollect ==
    /\ pc = "quantize_colors"
    /\ LET kept == SelectSeq(rgba, LAMBDA p : Eligible(p, remove_background, background_threshold))
       IN /\ qpixels' = kept
          /\ IF kept = <<>>
             THEN /\ quantized' = rgba
                  /\ palette' = <<>>
                  /\ pc' = "parse_dither"
             ELSE /\ pc' = "median_cut"
                  /\ UNCHANGED <<quantized, palette>>
    /\ UNCHANGED <<metricVars, licenseVars, inputs, buckets, ditherVars, matchVars, outputVars>>

\* lib.rs:1318-1322
MedianCutBegin ==
    /\ pc = "median_cut"
    /\ IF qpixels = <<>> \/ max_colors = 0
       THEN /\ palette' = <<>>
            /\ pc' = "map_pixels"
            /\ UNCHANGED buckets
       ELSE /\ buckets' = <<qpixels>>
            /\ pc' = "median_cut_loop"
            /\ UNCHANGED palette
    /\ UNCHANGED <<metricVars, licenseVars, inputs, qpixels, quantized, ditherVars, matchVars, outputVars>>

\* lib.rs:1324-1365: one iteration that splits
MedianCutSplit ==
    /\ pc = "median_cut_loop"
    /\ MedianCutContinues(buckets, max_colors)
    /\ buckets' = SplitBucket(buckets)
    /\ UNCHANGED <<metricVars, licenseVars, inputs, pc, qpixels, palette, quantized, ditherVars, matchVars, outputVars>>

\* lib.rs:1324, 1348-1350, 1367-1390: the loop ends and the averages are returned
MedianCutFinish ==
    /\ pc = "median_cut_loop"
    /\ ~MedianCutContinues(buckets, max_colors)
    /\ palette' = Averages(buckets)
    /\ pc' = "map_pixels"
    /\ UNCHANGED <<metricVars, licenseVars, inputs, qpixels, buckets, quantized, ditherVars, matchVars, outputVars>>

\* lib.rs:1303-1314
QuantizeMap ==
    /\ pc = "map_pixels"
    /\ IF MapPanics(rgba, palette, remove_background, background_threshold)
       THEN /\ pc' = "panicked"
            /\ UNCHANGED quantized
       ELSE /\ quantized' = MapToPalette(rgba, palette, remove_background, background_threshold)
            /\ pc' = "parse_dither"
    /\ UNCHANGED <<metricVars, licenseVars, inputs, qpixels, buckets, palette, ditherVars, matchVars, outputVars>>

Next ==
    \/ QuantizeCollect
    \/ MedianCutBegin
    \/ MedianCutSplit
    \/ MedianCutFinish
    \/ QuantizeMap
    \/ ParseDither
    \/ DitherNone
    \/ DitherSkipTransparent
    \/ FloydSteinbergStep
    \/ AtkinsonStep
    \/ OrderedStep
    \/ DitherFinish
    \/ MatchThreads
    \/ ProcessImageFinish
    \/ ProcessImageWithThreadsFinish

Spec == Init /\ [][Next]_vars

----------------------------------------------------------------------------
(* apply_dithering as a function of any raster and any palette *)

Black == <<0, 0, 0, 255>>
Veiled == <<200, 100, 50, 100>>
Gray == <<90, 90, 90, 255>>
Red == <<200, 40, 40, 255>>

DitherPixelValues == {Veiled, Gray, Red}

DitherPalettes ==
    { <<Black, White>>, <<White>>, <<Gray, Red>>, <<Transparent, Black, <<100, 100, 100, 255>>>> }

InitDither ==
    /\ entry = "apply_dithering"
    /\ target_width = DitherWidth
    /\ target_height = DitherHeight
    /\ max_colors = 0
    /\ remove_background = FALSE
    /\ background_threshold = 0
    /\ rgba = <<>>
    /\ qpixels = <<>>
    /\ buckets = <<>>
    /\ palette \in DitherPalettes
    /\ quantized \in Rasters(DitherPixelValues, DitherWidth * DitherHeight)
    /\ dither_mode = ""
    /\ dither \in {"None", "FloydSteinberg", "Ordered", "Atkinson"}
    /\ result = quantized
    /\ errors = NoErrors
    /\ pos = 0
    /\ corrected = NoPixel
    /\ new_color = NoPixel
    /\ dithered = <<>>
    /\ pc = "dither"
    /\ MatchIdle
    /\ OutputIdle
    /\ MetricIdle
    /\ LicenseIdle

NextDither ==
    \/ DitherNone
    \/ DitherSkipTransparent
    \/ FloydSteinbergStep
    \/ AtkinsonStep
    \/ OrderedStep
    \/ DitherFinish

SpecDither == InitDither /\ [][NextDither]_vars

----------------------------------------------------------------------------
(* threads::color_matching::color_distance as a function of two colors *)

\* the colors of the tables of the Lab metrics: the catalog colors and four
\* colors next to one another
MetricColors ==
    { <<0, 0, 0>>, <<255, 255, 255>>, <<100, 50, 50>>, <<90, 60, 40>>,
      <<70, 70, 70>>, <<30, 30, 120>>, <<128, 128, 128>>, <<45, 65, 75>>,
      <<0, 0, 1>>, <<255, 255, 254>>, <<2, 253, 220>>, <<1, 253, 220>> }

\* color_matching.rs:9-20
Algorithms == {"Euclidean", "Weighted", "Cie76", "Cie94", "Ciede2000"}

InitMetric ==
    /\ entry = "color_distance"
    /\ target_width = 0
    /\ target_height = 0
    /\ max_colors = 0
    /\ remove_background = FALSE
    /\ background_threshold = 0
    /\ rgba = <<>>
    /\ qpixels = <<>>
    /\ buckets = <<>>
    /\ palette = <<>>
    /\ quantized = <<>>
    /\ DitherIdle
    /\ MatchIdle
    /\ OutputIdle
    /\ color_a \in MetricColors
    /\ color_b \in MetricColors
    /\ metric \in Algorithms
    /\ measured = -1
    /\ found_idx = -1
    /\ LicenseIdle
    /\ pc = "color_distance"

\* color_matching.rs:277-285
ColorDistance ==
    /\ pc = "color_distance"
    /\ entry = "color_distance"
    /\ measured' = threads_color_distance(color_a, color_b, metric)
    /\ pc' = "measured"
    /\ UNCHANGED <<inputs, quantizeVars, ditherVars, matchVars, outputVars, licenseVars,
                   color_a, color_b, metric, found_idx>>

NextMetric == ColorDistance

SpecMetric == InitMetric /\ [][NextMetric]_vars

----------------------------------------------------------------------------
(* Licensing commands (src-tauri/src/licensing/manager.rs) over the stored  *)
(* license state (storage.rs).  Times are whole days.  The commands run    *)
(* one at a time, each from its load to its return.                        *)

MaxNow == 31

\* licensing/config.rs
TRIAL_DAYS == 30

Platform == "windows"

DeviceId == "device-1"

LicenseKeys == {"STCH-AAAA"}

\* types.rs:28-44, LicenseState::default(); updates_expire as manager.rs uses it
DefaultLicenseState ==
    [status |-> "None", source |-> Absent, license_key |-> Absent,
     device_id |-> "", platform |-> "",
     trial_start |-> Absent, trial_expires |-> Absent,
     license_activated |-> Absent, licensed_version |-> Absent,
     updates_expire |-> Absent, cached_validation |-> Absent]

\* storage.rs:27-57: the state load_license_state returns
load_license_state ==
    IF LICENSE_STATE_CACHE # Absent THEN LICENSE_STATE_CACHE[1]
    ELSE IF license_file = Absent THEN DefaultLicenseState
    ELSE license_file[1]

CacheAfterLoadClears == Absent

\* storage.rs:50-54: a state read from the file is put into the cache
CacheAfterLoad ==
    IF LICENSE_STATE_CACHE = Absent /\ license_file # Absent
    THEN license_file
    ELSE LICENSE_STATE_CACHE

\* storage.rs:60-76
save_license_state(s) ==
    /\ license_file' = Some(s)
    /\ LICENSE_STATE_CACHE' = Some(s)

\* manager.rs:25-29, 64-68, 158-162
EnsureDeviceId(s) ==
    IF s.device_id = ""
    THEN [s EXCEPT !.device_id = DeviceId, !.platform = Platform]
    ELSE s

UpdateTrialStatusAlways(s, now) ==
    IF s.trial_expires # Absent /\ now > s.trial_expires[1]
    THEN [s EXCEPT !.status = "TrialExpired"]
    ELSE s

\* manager.rs:253-261
update_trial_status(s, now) ==
    IF s.status = "Trial" /\ s.trial_expires # Absent /\ now > s.trial_expires[1]
    THEN [s EXCEPT !.status = "TrialExpired"]
    ELSE s

Max(a, b) == IF a >= b THEN a ELSE b

\* types.rs:48-60
trial_days_remaining(s, now) ==
    IF s.status # "Trial" THEN Absent
    ELSE IF s.trial_expires # Absent THEN Some(Max(s.trial_expires[1] - now, 0))
    ELSE Absent

\* types.rs:64-69
can_use_app(s) == s.status \in {"Trial", "Licensed", "LicensedUpgradeRequired"}

\* types.rs:134-154
LicenseInfoFrom(s, now) ==
    [status |-> s.status,
     source |-> s.source,
     trial_days_remaining |-> trial_days_remaining(s, now),
     licensed_version |-> s.licensed_version,
     devices_used |-> IF s.cached_validation = Absent THEN 0
                      ELSE s.cached_validation[1].devices_used,
     devices_max |-> IF s.cached_validation = Absent THEN 3
                     ELSE s.cached_validation[1].devices_max,
     needs_online_validation |-> s.cached_validation = Absent,
     platform |-> s.platform,
     can_use_app |-> can_use_app(s),
     should_watermark |-> FALSE]

Ok(s, now) == Some([ok |-> TRUE, info |-> LicenseInfoFrom(s, now)])

Err(message) == Some([ok |-> FALSE, error |-> message])

\* the commands leave the pipeline and the metric alone
LicensingOnly ==
    UNCHANGED <<inputs, pc, quantizeVars, ditherVars, matchVars, outputVars, metricVars>>

\* manager.rs:20-38
InitLicense ==
    LET loaded == load_license_state
        s == update_trial_status(EnsureDeviceId(loaded), utc_now)
    IN  /\ command' = "init_license"
        /\ state' = Some(s)
        /\ save_license_state(s)
        /\ returned' = Ok(s, utc_now)
        /\ UNCHANGED utc_now
        /\ LicensingOnly

\* manager.rs:42-50
GetLicenseStatus ==
    LET s == update_trial_status(load_license_state, utc_now)
    IN  /\ command' = "get_license_status"
        /\ state' = Some(s)
        /\ save_license_state(s)
        /\ returned' = Ok(s, utc_now)
        /\ UNCHANGED utc_now
        /\ LicensingOnly

\* api.rs:223-254: what init_trial hands back; expires_at is the server's
TrialInitResults(now) ==
    { [ok |-> TRUE, data |-> Some([expires_at |-> e])] : e \in {now + 1, now + TRIAL_DAYS} }
    \cup { [ok |-> TRUE, data |-> Absent] }
    \cup { [ok |-> FALSE, error |-> e] :
             e \in {"Trial already started", "Network error", "Rate limited"} }

\* api.rs:50-52
response_trial_start(response) ==
    IF response.data = Absent THEN Absent
    ELSE Some(response.data[1].expires_at - 30)

\* api.rs:55-57
response_trial_expires(response) ==
    IF response.data = Absent THEN Absent
    ELSE Some(response.data[1].expires_at)

or_else(option, fallback) == IF option = Absent THEN Some(fallback) ELSE option

TrialNeverStarted(s) == FALSE

\* manager.rs:59
TrialStarted(s) == s.trial_start # Absent

\* manager.rs:55-105
StartTrial ==
    LET loaded == load_license_state
        s == EnsureDeviceId(loaded)
    IN  /\ command' = "start_trial"
        /\ UNCHANGED utc_now
        /\ LicensingOnly
        /\ IF TrialStarted(loaded)
           THEN /\ state' = Some(loaded)
                /\ returned' = Err("Trial already started")
                /\ LICENSE_STATE_CACHE' = CacheAfterLoad
                /\ UNCHANGED license_file
           ELSE \E response \in TrialInitResults(utc_now) :
                  IF response.ok
                  THEN LET t == [s EXCEPT
                                   !.trial_start = or_else(response_trial_start(response), utc_now),
                                   !.trial_expires = or_else(response_trial_expires(response),
                                                             utc_now + TRIAL_DAYS),
                                   !.status = "Trial"]
                       IN  /\ state' = Some(t)
                           /\ save_license_state(t)
                           /\ returned' = Ok(t, utc_now)
                  ELSE IF response.error = "Trial already started"
                  THEN /\ state' = Some(s)
                       /\ returned' = Err("A trial has already been started on this device")
                       /\ LICENSE_STATE_CACHE' = CacheAfterLoad
                       /\ UNCHANGED license_file
                  ELSE LET t == [s EXCEPT
                                   !.trial_start = Some(utc_now),
                                   !.trial_expires = Some(utc_now + TRIAL_DAYS),
                                   !.status = "Trial"]
                       IN  /\ state' = Some(t)
                           /\ save_license_state(t)
                           /\ returned' = Ok(t, utc_now)

\* api.rs:290-324: what activate hands back; updates_expire is the server's
ActivateResults(now) ==
    { [ok |-> TRUE, data |-> Some([updates_expire |-> now + 365, devices_used |-> 1,
                                   devices_max |-> 3])],
      [ok |-> TRUE, data |-> Absent] }
    \cup { [ok |-> FALSE, error |-> e] :
             e \in {"Network error", "Invalid license key"} }

\* manager.rs:154-198
ActivateLicense ==
    \E license_key \in LicenseKeys, response \in ActivateResults(utc_now) :
        LET loaded == load_license_state
            s == EnsureDeviceId(loaded)
        IN  /\ command' = "activate_license"
            /\ UNCHANGED utc_now
            /\ LicensingOnly
            /\ IF ~response.ok
               THEN /\ state' = Some(s)
                    /\ returned' = Err(response.error)
                    /\ LICENSE_STATE_CACHE' = CacheAfterLoad
                    /\ UNCHANGED license_file
               ELSE LET data == response.data
                        t == IF data = Absent THEN s
                             ELSE [s EXCEPT
                                     !.status = "Licensed",
                                     !.source = Some("LicenseKey"),
                                     !.license_key = Some(license_key),
                                     !.license_activated = Some(utc_now),
                                     !.updates_expire = Some(data[1].updates_expire),
                                     !.cached_validation =
                                         Some([valid |-> TRUE, status |-> "licensed",
                                               updates_expire |-> Some(data[1].updates_expire),
                                               devices_used |-> data[1].devices_used,
                                               devices_max |-> data[1].devices_max,
                                               signature |-> "",
                                               cached_at |-> utc_now])]
                    IN  /\ state' = Some(t)
                        /\ save_license_state(t)
                        /\ returned' = Ok(t, utc_now)

\* api.rs:327-356: what deactivate hands back
DeactivateResults ==
    { [ok |-> TRUE] }
    \cup { [ok |-> FALSE, error |-> e] :
             e \in {"Network error", "Server error"} }

StatusAfterDeactivateKeepsTrial(s, now) ==
    IF s.trial_start # Absent THEN "Trial" ELSE "None"

\* manager.rs:219-231
StatusAfterDeactivate(s, now) ==
    IF s.trial_start # Absent
    THEN IF s.trial_expires # Absent
         THEN IF now > s.trial_expires[1] THEN "TrialExpired" ELSE "Trial"
         ELSE "None"
    ELSE "None"

\* manager.rs:202-242
DeactivateDevice ==
    LET s == load_license_state
    IN  /\ command' = "deactivate_device"
        /\ UNCHANGED utc_now
        /\ LicensingOnly
        /\ IF s.license_key = Absent
           THEN /\ state' = Some(s)
                /\ returned' = Err("No license key found")
                /\ LICENSE_STATE_CACHE' = CacheAfterLoad
                /\ UNCHANGED license_file
           ELSE \E response \in DeactivateResults :
                  IF ~response.ok
                  THEN /\ state' = Some(s)
                       /\ returned' = Err(response.error)
                       /\ LICENSE_STATE_CACHE' = CacheAfterLoad
                       /\ UNCHANGED license_file
                  ELSE LET t == [s EXCEPT
                                   !.status = StatusAfterDeactivate(s, utc_now),
                                   !.source = Absent,
                                   !.license_key = Absent,
                                   !.license_activated = Absent,
                                   !.updates_expire = Absent,
                                   !.cached_validation = Absent]
                       IN  /\ state' = Some(t)
                           /\ save_license_state(t)
                           /\ returned' = Ok(t, utc_now)

\* a day passes
Tick ==
    /\ utc_now < MaxNow
    /\ utc_now' = utc_now + 1
    /\ UNCHANGED <<license_file, LICENSE_STATE_CACHE, command, state, returned>>
    /\ LicensingOnly

\* the application is closed and started again: the static cache is empty
Restart ==
    /\ LICENSE_STATE_CACHE # Absent
    /\ LICENSE_STATE_CACHE' = Absent
    /\ command' = ""
    /\ state' = Absent
    /\ returned' = Absent
    /\ UNCHANGED <<license_file, utc_now>>
    /\ LicensingOnly

InitLicensing ==
    /\ entry = "licensing"
    /\ target_width = 0
    /\ target_height = 0
    /\ max_colors = 0
    /\ remove_background = FALSE
    /\ background_threshold = 0
    /\ rgba = <<>>
    /\ qpixels = <<>>
    /\ buckets = <<>>
    /\ palette = <<>>
    /\ quantized = <<>>
    /\ DitherIdle
    /\ MatchIdle
    /\ OutputIdle
    /\ MetricIdle
    /\ LicenseIdle
    /\ pc = "licensing"

NextLicensing ==
    \/ InitLicense
    \/ GetLicenseStatus
    \/ StartTrial
    \/ ActivateLicense
    \/ DeactivateDevice
    \/ Tick
    \/ Restart

SpecLicensing == InitLicensing /\ [][NextLicensing]_vars

----------------------------------------------------------------------------
(* Properties of the pipeline *)

Returned == pc = "done"

ColorIds == { colors[i].id : i \in 1..Len(colors) }

Cells == { <<x, y>> : x \in 0..(target_width - 1), y \in 0..(target_height - 1) }

Cell(c) == pixels[c[2] + 1][c[1] + 1]

\* C1 (Totality of grid): in a returned result every cell whose dithered
\* pixel is opaque and is not removed as background holds the id of a color
\* of the returned color list, and every cell whose pixel is transparent or
\* removed as background holds the empty string.
Totality ==
    Returned =>
        \A c \in Cells :
            LET pixel == GetPixel(dithered, c[1], c[2], target_width)
            IN IF Eligible(pixel, remove_background, background_threshold)
               THEN Cell(c) # "" /\ Cell(c) \in ColorIds
               ELSE Cell(c) = ""

\* A returned grid with a colored cell and a cell that is opaque in the
\* dithered raster but removed as background
TotalityWitness ==
    /\ Returned
    /\ \E c \in Cells : Cell(c) # ""
    /\ \E c \in Cells :
        LET pixel == GetPixel(dithered, c[1], c[2], target_width)
        IN ~is_transparent(pixel) /\ Cell(c) = ""

\* C2 (Palette bound): the palette of median_cut / quantize_colors never has
\* more than max_colors entries, and neither has the returned color list.
PaletteBound ==
    /\ Len(palette) <= max_colors
    /\ Returned => Len(colors) <= max_colors

\* More eligible pixels than max_colors, and the palette is full
PaletteBoundWitness ==
    /\ Returned
    /\ max_colors >= 2
    /\ Len(qpixels) > max_colors
    /\ Len(palette) = max_colors
    /\ Len(colors) = max_colors

\* The distinct RGB values of the eligible pixels of the resized image
EligibleRGBs ==
    { RGB(rgba[i]) : i \in { j \in 1..Len(rgba) :
        Eligible(rgba[j], remove_background, background_threshold) } }

PaletteRGBs == { RGB(palette[i]) : i \in 1..Len(palette) }

\* Palette and output raster reproduce the eligible pixels of the input
RoundTrip ==
    /\ PaletteRGBs = EligibleRGBs
    /\ \A i \in 1..Len(dithered) :
        ~is_transparent(dithered[i]) => RGB(dithered[i]) = RGB(rgba[i])

\* C3 (Round-trip identity) as stated: with dither mode none, when the
\* eligible pixels use at most max_colors distinct RGB values, the palette
\* is exactly that set of values and every opaque output pixel has the RGB
\* of its input pixel.
RoundTripIdentity ==
    (Returned /\ dither = "None" /\ Cardinality(EligibleRGBs) <= max_colors)
        => RoundTrip

\* C3 as the code has it: the same holds when the eligible pixels themselves,
\* counted with repetitions, are at most max_colors (then the loop of
\* median_cut ends with every bucket holding one RGB value).
RoundTripFewPixels ==
    (Returned /\ dither = "None" /\ Len(qpixels) <= max_colors)
        => RoundTrip

\* Two eligible pixels of different RGB came back exactly
RoundTripFewPixelsWitness ==
    /\ Returned
    /\ dither = "None"
    /\ Len(qpixels) = 2
    /\ Cardinality(EligibleRGBs) = 2
    /\ max_colors >= 2
    /\ RoundTrip

\* C4 (Empty palette is not a hard error): when every pixel of the resized
\* image is transparent or removed as background, the call does not fail,
\* whatever the dither mode, and returns an empty color list and a grid of
\* empty strings.
EmptyPaletteCompletes ==
    (\A i \in 1..Len(rgba) : ~Eligible(rgba[i], remove_background, background_threshold))
        => /\ pc # "panicked"
           /\ Returned => /\ colors = <<>>
                          /\ \A c \in Cells : Cell(c) = ""

Dithered == pc \in {"dithered", "matched", "done"}

Matched == pc \in {"matched", "done"} /\ entry = "process_image_with_threads"

Catalog == get_threads_by_brand(brand)

\* the catalog id an output color refers to
CatalogId(color) == color.thread_brand \o "-" \o color.thread_code

OpaqueIndices == { i \in 0..(Len(palette) - 1) : ~is_transparent(palette[i + 1]) }

\* the catalog id of the entry nearest to palette entry i (0-based)
NearestId(i) ==
    threads_find_closest_color(RGB(palette[i + 1]), ThreadPalette(Catalog), algorithm).color_id

\* C6 (Deduplication in the matcher): no two output colors refer to the
\* same catalog id; every palette index maps to the id of the one output
\* color of its nearest catalog entry, so palette entries with the same
\* nearest entry share one color; every output color is the nearest entry of
\* some palette entry.
Deduplication ==
    Matched =>
        /\ \A a, b \in 1..Len(colors) :
            a # b => CatalogId(colors[a]) # CatalogId(colors[b]) /\ colors[a].id # colors[b].id
        /\ \A i \in OpaqueIndices :
            /\ i \in DOMAIN color_id_map
            /\ \E a \in 1..Len(colors) :
                CatalogId(colors[a]) = NearestId(i) /\ color_id_map[i] = colors[a].id
        /\ \A a \in 1..Len(colors) :
            \E i \in OpaqueIndices : NearestId(i) = CatalogId(colors[a])

\* Two palette entries of different RGB share one output color
DeduplicationWitness ==
    /\ Matched
    /\ \E i, j \in OpaqueIndices :
        /\ i # j
        /\ palette[i + 1] # palette[j + 1]
        /\ color_id_map[i] = color_id_map[j]
    /\ Len(colors) < Len(palette)

\* the distance of palette entry i (0-based) to catalog entry k (1-based)
CatalogDistance(i, k) == threads_color_distance(RGB(palette[i + 1]), Catalog[k].rgb, algorithm)

\* the catalog position of the output color palette entry i maps to
ChosenEntry(i) ==
    CHOOSE k \in 1..Len(Catalog) :
        \E a \in 1..Len(colors) :
            /\ colors[a].id = color_id_map[i]
            /\ colors[a].thread_code = Catalog[k].code

\* C7 (Matcher selects the nearest catalog entry): the entry chosen for a
\* palette color is at minimal distance under the metric over the whole
\* catalog, and every entry before it in catalog order is strictly farther.
NearestFirst ==
    Matched =>
        \A i \in OpaqueIndices :
            /\ \E k \in 1..Len(Catalog) : \E a \in 1..Len(colors) :
                colors[a].id = color_id_map[i] /\ colors[a].thread_code = Catalog[k].code
            /\ \A j \in 1..Len(Catalog) :
                /\ CatalogDistance(i, ChosenEntry(i)) <= CatalogDistance(i, j)
                /\ j < ChosenEntry(i) =>
                       CatalogDistance(i, ChosenEntry(i)) < CatalogDistance(i, j)

\* A palette color whose two nearest catalog entries are at the same
\* distance got the first of them
NearestFirstWitness ==
    /\ Matched
    /\ \E i \in OpaqueIndices : \E j \in 1..Len(Catalog) :
        /\ j > ChosenEntry(i)
        /\ CatalogDistance(i, j) = CatalogDistance(i, ChosenEntry(i))

\* C8 (Preview matches the grid): in a returned result a cell holding the
\* empty string has a fully transparent preview pixel, and a cell holding a
\* color id has an opaque preview pixel with the RGB of that color.
PreviewMatchesGrid ==
    Returned =>
        \A c \in Cells :
            LET p == GetPixel(preview, c[1], c[2], target_width)
            IN IF Cell(c) = ""
               THEN p[4] = 0
               ELSE /\ ~is_transparent(p)
                    /\ \E a \in 1..Len(colors) :
                        colors[a].id = Cell(c) /\ colors[a].rgb = RGB(p)

----------------------------------------------------------------------------
(* Properties of the error-diffusion passes, over SpecDither *)

\* The sum, over the accumulators after a step, of what the step added to
\* them in one channel (sixteenths).  before is the map without the entry of
\* the pixel of the step, which the step removes.
RECURSIVE SumAdded(_, _, _, _)
SumAdded(keys, before, after, ch) ==
    IF keys = {} THEN 0
    ELSE LET k == CHOOSE key \in keys : TRUE
         IN (after[k][ch] - (IF k \in DOMAIN before THEN before[k][ch] ELSE 0))
            + SumAdded(keys \ {k}, before, after, ch)

Propagated(ch) ==
    SumAdded(DOMAIN errors',
             [k \in (DOMAIN errors) \ {<<ScanX, ScanY>>} |-> errors[k]],
             errors', ch)

\* the quantization error of the pixel of the step (lib.rs:1430-1434)
QuantError(ch) == corrected'[ch] - new_color'[ch]

\* a step of a pass that processed an opaque pixel
DiffusedBy(mode) ==
    /\ pc = "dither"
    /\ dither = mode
    /\ pos' = pos + 1
    /\ ~is_transparent(ScanPixel)

\* C9 (Dither conservation) as stated: for any opaque pixel the amounts
\* added to the neighbours' accumulators sum to 1.0 times its quantization
\* error with Floyd-Steinberg (16 sixteenths) and to 0.75 times with
\* Atkinson (12 sixteenths).
DitherConservation ==
    [][ /\ DiffusedBy("FloydSteinberg") =>
            \A ch \in 1..3 : Propagated(ch) = 16 * QuantError(ch)
        /\ DiffusedBy("Atkinson") =>
            \A ch \in 1..3 : Propagated(ch) = 12 * QuantError(ch) ]_vars

Inside(nx, ny) == 0 <= nx /\ nx < Width /\ 0 <= ny /\ ny < Height

Share(nx, ny, weight) == IF Inside(nx, ny) THEN weight ELSE 0

\* sixteenths of the error that the neighbours inside the raster receive
FloydSteinbergShare(x, y) ==
    Share(x + 1, y, 7) + Share(x - 1, y + 1, 3) + Share(x, y + 1, 5)
        + Share(x + 1, y + 1, 1)

AtkinsonShare(x, y) ==
    Share(x + 1, y, 2) + Share(x + 2, y, 2) + Share(x - 1, y + 1, 2)
        + Share(x, y + 1, 2) + Share(x + 1, y + 1, 2) + Share(x, y + 2, 2)

\* C9 as the code has it: the amounts added sum to the shares of the
\* neighbours that lie inside the raster; that is 1.0 times the error
\* (Floyd-Steinberg) or 0.75 times (Atkinson) for the pixels that have all
\* their neighbours inside, and less at the right, left and bottom borders.
DitherConservationInside ==
    [][ /\ DiffusedBy("FloydSteinberg") =>
            /\ \A ch \in 1..3 :
                Propagated(ch) = FloydSteinbergShare(ScanX, ScanY) * QuantError(ch)
            /\ (1 <= ScanX /\ ScanX + 1 < Width /\ ScanY + 1 < Height) =>
                \A ch \in 1..3 : Propagated(ch) = 16 * QuantError(ch)
        /\ DiffusedBy("Atkinson") =>
            /\ \A ch \in 1..3 :
                Propagated(ch) = AtkinsonShare(ScanX, ScanY) * QuantError(ch)
            /\ (1 <= ScanX /\ ScanX + 2 < Width /\ ScanY + 2 < Height) =>
                \A ch \in 1..3 : Propagated(ch) = 12 * QuantError(ch) ]_vars

\* A Floyd-Steinberg step has just processed an opaque pixel that has its
\* four neighbours inside the raster, with a quantization error, while
\* errors of earlier pixels are pending
DitherConservationInsideWitness ==
    /\ pc = "dither"
    /\ dither = "FloydSteinberg"
    /\ pos = Width + 2
    /\ ~is_transparent(quantized[pos])
    /\ RGB(corrected) # RGB(new_color)
    /\ \E k \in DOMAIN errors : k[2] = 1 /\ errors[k] # <<0, 0, 0>>

----------------------------------------------------------------------------
(* Decoding of the mode strings *)

\* C10 (Permissive decode): a dither_mode that is none of the names decoded
\* at lib.rs:448-450 is processed as no dithering, and the dithered raster
\* is the quantized one; a color_match_algorithm that is none of the names
\* decoded at lib.rs:581-584 is processed as CIEDE2000, and the matcher
\* returns what it returns under CIEDE2000; neither fails.
PermissiveDecode ==
    /\ dither_mode \notin {"", "none", "floyd-steinberg", "ordered", "atkinson"} =>
        /\ dither = "None"
        /\ pc # "panicked"
        /\ Dithered => dithered = quantized
    /\ (Matched /\ color_match_algorithm \notin {"euclidean", "weighted", "cie76", "cie94"}) =>
        /\ algorithm = "Ciede2000"
        /\ colors = MatchPalette(palette, Catalog, brand, "Ciede2000").matched_colors
        /\ color_id_map = MatchPalette(palette, Catalog, brand, "Ciede2000").color_id_map

\* A call with two unknown names returned, with colors that the Euclidean
\* metric would not have chosen
PermissiveDecodeWitness ==
    /\ Returned
    /\ dither_mode = "stucki"
    /\ color_match_algorithm = "lab"
    /\ colors # <<>>
    /\ colors # MatchPalette(palette, Catalog, brand, "Euclidean").matched_colors

----------------------------------------------------------------------------
(* Failures *)

\* C11 (InvalidDimensions): a call with target width 0 or target height 0
\* returns an InvalidDimensions failure to the caller, and no result.
InvalidDimensionsFailure ==
    (target_width = 0 \/ target_height = 0) =>
        /\ pc # "done"
        /\ pc = "failed" => failure = "InvalidDimensions"

----------------------------------------------------------------------------
(* Properties of the metrics, over SpecMetric *)

Measured == pc = "measured"

\* the distance of the two colors taken in the other order
Reverse == threads_color_distance(color_b, color_a, metric)

\* A distance is zero within 10^-3.  The Lab metrics are in millionths; the
\* Euclidean and weighted distances are square roots of the integers the
\* model keeps (of 1/512 of it for the weighted one), within 10^-3 of zero
\* only when the integer is 0.
IsZero(d, alg) ==
    IF alg \in {"Euclidean", "Weighted"} THEN d = 0 ELSE d <= 1000

\* C12 (Metric contract) as stated: under each of the five metrics the
\* distance of a to b is the distance of b to a, and it is zero if and only
\* if a = b.
MetricContract ==
    Measured =>
        /\ measured = Reverse
        /\ IsZero(measured, metric) <=> color_a = color_b

\* C12 as the code has it: the distance is symmetric under Euclidean,
\* Weighted, CIE76 and CIEDE2000, and under all five metrics it is zero if
\* and only if a = b.  (delta_e94 weights by the chroma of its first
\* argument and is not symmetric.)
MetricContractButCie94 ==
    Measured =>
        /\ metric # "Cie94" => measured = Reverse
        /\ IsZero(measured, metric) <=> color_a = color_b

\* Two colors one step apart were measured with a symmetric metric
MetricContractButCie94Witness ==
    /\ Measured
    /\ metric = "Weighted"
    /\ color_a = <<2, 253, 220>>
    /\ color_b = <<1, 253, 220>>
    /\ measured = Reverse
    /\ measured > 0

----------------------------------------------------------------------------
(* update_trial_status on its own, as the tests of manager.rs:263-290 call *)
(* it: on a state of any status, with any trial_expires, at any time.      *)

\* types.rs:7-16
LicenseStatuses ==
    {"None", "Trial", "TrialExpired", "Licensed", "LicensedUpgradeRequired", "Invalid",
     "GracePeriod"}

TrialStates ==
    { [DefaultLicenseState EXCEPT !.status = st, !.trial_expires = ex] :
        st \in LicenseStatuses, ex \in {Absent} \cup { Some(t) : t \in 0..MaxNow } }

InitTrialStatus ==
    /\ entry = "update_trial_status"
    /\ target_width = 0
    /\ target_height = 0
    /\ max_colors = 0
    /\ remove_background = FALSE
    /\ background_threshold = 0
    /\ rgba = <<>>
    /\ qpixels = <<>>
    /\ buckets = <<>>
    /\ palette = <<>>
    /\ quantized = <<>>
    /\ DitherIdle
    /\ MatchIdle
    /\ OutputIdle
    /\ MetricIdle
    /\ \E s \in TrialStates :
         /\ license_file = Some(s)
         /\ state = Some(s)
    /\ LICENSE_STATE_CACHE = Absent
    /\ utc_now \in 0..MaxNow
    /\ command = ""
    /\ returned = Absent
    /\ pc = "update_trial_status"

\* manager.rs:253-261, on the local state
UpdateTrialStatus ==
    /\ pc = "update_trial_status"
    /\ entry = "update_trial_status"
    /\ state' = Some(update_trial_status(state[1], utc_now))
    /\ command' = "update_trial_status"
    /\ pc' = "updated"
    /\ UNCHANGED <<inputs, quantizeVars, ditherVars, matchVars, outputVars, metricVars,
                   license_file, LICENSE_STATE_CACHE, utc_now, returned>>

NextTrialStatus == UpdateTrialStatus

SpecTrialStatus == InitTrialStatus /\ [][NextTrialStatus]_vars

----------------------------------------------------------------------------
(* median_cut on its own (lib.rs:1317-1391): any list of up to             *)
(* MedianCutPixels opaque pixels, any max_colors up to MedianCutColors.    *)
(* The values give equal ranges in two channels and in two buckets.        *)

MedianCutPixels == 4
MedianCutColors == 4

MedianCutValues ==
    { <<0, 0, 0, 255>>, <<10, 10, 0, 255>>, <<0, 0, 100, 255>>, <<10, 10, 100, 255>>,
      <<10, 0, 100, 255>> }

PixelLists(values, n) == UNION { [1..k -> values] : k \in 0..n }

InitMedianCut ==
    /\ entry = "median_cut"
    /\ target_width = 0
    /\ target_height = 0
    /\ max_colors \in 0..MedianCutColors
    /\ remove_background = FALSE
    /\ background_threshold = 0
    /\ rgba = <<>>
    /\ qpixels \in PixelLists(MedianCutValues, MedianCutPixels)
    /\ buckets = <<>>
    /\ palette = <<>>
    /\ quantized = <<>>
    /\ DitherIdle
    /\ MatchIdle
    /\ OutputIdle
    /\ MetricIdle
    /\ LicenseIdle
    /\ pc = "median_cut"

\* the call ends where MedianCutFinish leaves it
NextMedianCut ==
    \/ MedianCutBegin
    \/ MedianCutSplit
    \/ MedianCutFinish

SpecMedianCut == InitMedianCut /\ [][NextMedianCut]_vars

----------------------------------------------------------------------------
(* find_closest_color on its own (lib.rs:1263-1279): a pixel against every *)
(* palette of up to ClosestPalette entries, transparent entries, equal     *)
(* entries and entries at equal distances among them.                      *)

ClosestPalette == 3

ClosestPixels ==
    { <<5, 0, 0, 255>>, <<0, 0, 0, 255>>, <<250, 250, 250, 255>>, <<5, 0, 0, 0>> }

ClosestEntries ==
    { <<0, 0, 0, 0>>, <<5, 0, 0, 100>>, <<0, 0, 0, 255>>, <<10, 0, 0, 255>>,
      <<255, 255, 255, 255>> }

InitClosest ==
    /\ entry = "find_closest_color"
    /\ target_width = 0
    /\ target_height = 0
    /\ max_colors = 0
    /\ remove_background = FALSE
    /\ background_threshold = 0
    /\ rgba = <<>>
    /\ qpixels = <<>>
    /\ buckets = <<>>
    /\ palette \in PixelLists(ClosestEntries, ClosestPalette)
    /\ quantized = <<>>
    /\ dither_mode = ""
    /\ dither = ""
    /\ result = <<>>
    /\ errors = NoErrors
    /\ pos = 0
    /\ corrected \in ClosestPixels
    /\ new_color = NoPixel
    /\ dithered = <<>>
    /\ MatchIdle
    /\ OutputIdle
    /\ color_a = <<>>
    /\ color_b = <<>>
    /\ metric = ""
    /\ measured = -1
    /\ found_idx = -1
    /\ LicenseIdle
    /\ pc = "find_closest_color"

\* lib.rs:1263-1279
FindClosestColor ==
    /\ pc = "find_closest_color"
    /\ entry = "find_closest_color"
    /\ found_idx' = find_closest_color(corrected, palette)
    /\ pc' = "found"
    /\ UNCHANGED <<inputs, quantizeVars, ditherVars, matchVars, outputVars, licenseVars,
                   color_a, color_b, metric, measured>>

NextClosest == FindClosestColor

SpecClosest == InitClosest /\ [][NextClosest]_vars

----------------------------------------------------------------------------
(* Properties of the licensing commands *)

\* C13: a trial starts only once: when the stored state has trial_start set,
\* start_trial returns "Trial already started" and leaves the stored status,
\* trial_start and trial_expires as they were; and no step of start_trial,
\* activate_license, deactivate_device, init_license or get_license_status
\* replaces a trial_start that is set.
TrialStartsOnce ==
    [][ LET before == load_license_state
            after == load_license_state'
        IN  /\ (StartTrial /\ before.trial_start # Absent) =>
                   /\ returned' = Err("Trial already started")
                   /\ after.status = before.status
                   /\ after.trial_start = before.trial_start
                   /\ after.trial_expires = before.trial_expires
            /\ before.trial_start # Absent => after.trial_start = before.trial_start
      ]_vars

\* start_trial was refused on a device whose trial has run out
TrialStartsOnceWitness ==
    /\ command = "start_trial"
    /\ returned = Err("Trial already started")
    /\ load_license_state.trial_start # Absent
    /\ load_license_state.status = "TrialExpired"

\* C14: update_trial_status changes nothing but the status, changes the status
\* only from Trial to TrialExpired and only when the clock is strictly after
\* trial_expires; a Trial whose trial_expires is not yet passed stays Trial and
\* every other status stays what it was.
TrialStatusUpdate ==
    [][ UpdateTrialStatus =>
          LET before == state[1]
              after == state'[1]
          IN  /\ [after EXCEPT !.status = before.status] = before
              /\ after.status # before.status =>
                    /\ before.status = "Trial"
                    /\ after.status = "TrialExpired"
                    /\ before.trial_expires # Absent
                    /\ utc_now > before.trial_expires[1]
              /\ ( /\ before.status = "Trial"
                   /\ before.trial_expires # Absent
                   /\ before.trial_expires[1] >= utc_now ) => after.status = "Trial"
              /\ before.status # "Trial" => after.status = before.status
      ]_vars

\* a Trial read from the file expired the day before the update
TrialStatusUpdateWitness ==
    /\ pc = "updated"
    /\ license_file[1].status = "Trial"
    /\ license_file[1].trial_expires = Some(utc_now - 1)
    /\ state[1].status = "TrialExpired"

\* C15: a deactivate_device that succeeds clears source, license_key,
\* license_activated and cached_validation, leaves device_id, platform,
\* trial_start and trial_expires as they were, and sets the status to Trial
\* when a trial was started and trial_expires is not passed, to TrialExpired
\* when it is passed, and to None when no trial was started.
DeactivateFrame ==
    [][ (DeactivateDevice /\ returned'[1].ok) =>
          LET before == load_license_state
              after == load_license_state'
          IN  /\ after.source = Absent
              /\ after.license_key = Absent
              /\ after.license_activated = Absent
              /\ after.cached_validation = Absent
              /\ after.device_id = before.device_id
              /\ after.platform = before.platform
              /\ after.trial_start = before.trial_start
              /\ after.trial_expires = before.trial_expires
              /\ after = state'[1]
              /\ after.status =
                    IF before.trial_start = Absent THEN "None"
                    ELSE IF utc_now > before.trial_expires[1] THEN "TrialExpired"
                    ELSE "Trial"
      ]_vars

\* a license activated during a trial was given up after the trial ran out
DeactivateFrameWitness ==
    /\ command = "deactivate_device"
    /\ returned # Absent
    /\ returned[1].ok
    /\ load_license_state.status = "TrialExpired"
    /\ load_license_state.license_key = Absent
    /\ load_license_state.device_id = DeviceId

----------------------------------------------------------------------------
(* Properties of median_cut *)

InLoop == pc = "median_cut_loop"

\* the (bucket, channel) pairs of the buckets that hold more than one pixel, 0-based
SplitPairs(bs) == { pr \in (0..(Len(bs) - 1)) \X (0..2) : Len(bs[pr[1] + 1]) > 1 }

ChannelValues(bucket, channel) == { bucket[j][channel + 1] : j \in 1..Len(bucket) }

SetMax(S) == CHOOSE v \in S : \A w \in S : w <= v

SetMin(S) == CHOOSE v \in S : \A w \in S : v <= w

PairRange(bs, pr) ==
    SetMax(ChannelValues(bs[pr[1] + 1], pr[2])) - SetMin(ChannelValues(bs[pr[1] + 1], pr[2]))

LargestRange(bs) ==
    IF SplitPairs(bs) = {} THEN 0
    ELSE SetMax({ PairRange(bs, pr) : pr \in SplitPairs(bs) })

\* the earliest bucket, then the lowest channel, among the pairs of largest range
ChosenPair(bs) ==
    CHOOSE pr \in SplitPairs(bs) :
        /\ PairRange(bs, pr) = LargestRange(bs)
        /\ \A q \in SplitPairs(bs) :
              PairRange(bs, q) = LargestRange(bs) =>
                  \/ pr[1] < q[1]
                  \/ pr[1] = q[1] /\ pr[2] <= q[2]

Count(s, v) == Cardinality({ j \in 1..Len(s) : s[j] = v })

\* the same pixels, each as many times
SameBag(s, t) ==
    /\ Len(s) = Len(t)
    /\ \A j \in 1..Len(s) : Count(s, s[j]) = Count(t, s[j])

SortedBy(s, channel) ==
    \A j \in 1..(Len(s) - 1) : s[j][channel + 1] <= s[j + 1][channel + 1]

StopCondition(bs, mc) ==
    \/ Len(bs) >= mc
    \/ LargestRange(bs) = 0
    \/ SplitPairs(bs) = {}

\* C16: an iteration of median_cut splits the bucket and channel of largest
\* range among the buckets of more than one pixel, the earliest bucket and then
\* the lowest channel on a tie: the bucket leaves its place, and its pixels,
\* sorted by the channel, come back at the end as the first floor(len/2) of them
\* and the rest.  The loop splits only when the bucket count is below max_colors,
\* the largest range is above 0 and some bucket has more than one pixel, and
\* ends only when one of the three fails.
SplitRule ==
    [][ /\ MedianCutSplit =>
            /\ ~StopCondition(buckets, max_colors)
            /\ LET n == Len(buckets)
                   pr == ChosenPair(buckets)
                   old == buckets[pr[1] + 1]
                   left == buckets'[n]
                   right == buckets'[n + 1]
               IN  /\ Len(buckets') = n + 1
                   /\ \A j \in 1..(n - 1) :
                         buckets'[j] = buckets[IF j <= pr[1] THEN j ELSE j + 1]
                   /\ Len(left) = Len(old) \div 2
                   /\ SortedBy(left \o right, pr[2])
                   /\ SameBag(left \o right, old)
        /\ MedianCutFinish => StopCondition(buckets, max_colors)
      ]_vars

\* the second split had two buckets of equal range to choose from, each with
\* two channels of equal range
SplitRuleWitness ==
    /\ InLoop
    /\ Len(buckets) = 3
    /\ qpixels = << <<10, 10, 100, 255>>, <<0, 0, 0, 255>>, <<0, 0, 100, 255>>,
                    <<10, 10, 0, 255>> >>
    /\ buckets = << << <<10, 10, 100, 255>>, <<0, 0, 100, 255>> >>,
                    << <<0, 0, 0, 255>> >>,
                    << <<10, 10, 0, 255>> >> >>

RECURSIVE Flatten(_)
Flatten(bs) == IF bs = <<>> THEN <<>> ELSE bs[1] \o Flatten(Tail(bs))

\* C17: at every iteration of median_cut no bucket is empty and the buckets
\* together hold the input pixels, each as many times as the input; a split
\* takes one bucket away and adds two buckets, neither empty, so the bucket
\* count grows by exactly one.
PartitionInvariant ==
    [][ /\ InLoop' =>
            /\ \A j \in 1..Len(buckets') : buckets'[j] # <<>>
            /\ SameBag(Flatten(buckets'), qpixels')
        /\ MedianCutSplit =>
            /\ Len(buckets') = Len(buckets) + 1
            /\ buckets'[Len(buckets)] # <<>>
            /\ buckets'[Len(buckets) + 1] # <<>>
            /\ \E i \in 1..Len(buckets) :
                  /\ RemoveAt(buckets, i - 1) = SubSeq(buckets', 1, Len(buckets) - 1)
                  /\ SameBag(buckets'[Len(buckets)] \o buckets'[Len(buckets) + 1], buckets[i])
      ]_vars

\* two splits of four pixels, two of them equal, left three buckets
PartitionInvariantWitness ==
    /\ InLoop
    /\ Len(qpixels) = 4
    /\ Len(buckets) = 3
    /\ \E j \in 1..3 : Len(buckets[j]) = 2 /\ buckets[j][1] = buckets[j][2]

----------------------------------------------------------------------------
(* Properties of find_closest_color *)

Found == pc = "found"

Opaque(pal) == { j \in 0..(Len(pal) - 1) : ~is_transparent(pal[j + 1]) }

\* C18: for a palette with an entry that is not transparent, find_closest_color
\* returns the index of an entry that is not transparent, no other such entry
\* is nearer to the pixel in RGB, and none at the same distance has a lower
\* index; find_closest_color_idx returns the same index.
ClosestColor ==
    (Found /\ Opaque(palette) # {}) =>
        /\ found_idx \in Opaque(palette)
        /\ \A j \in Opaque(palette) :
              /\ color_distance(corrected, palette[found_idx + 1])
                    <= color_distance(corrected, palette[j + 1])
              /\ j < found_idx =>
                    color_distance(corrected, palette[found_idx + 1])
                        < color_distance(corrected, palette[j + 1])
        /\ find_closest_color_idx(corrected, palette) = found_idx

\* the pixel is half way between the second and the third entry, and the
\* first entry, transparent, is the pixel's own color
ClosestColorWitness ==
    /\ Found
    /\ corrected = <<5, 0, 0, 255>>
    /\ palette = << <<5, 0, 0, 100>>, <<0, 0, 0, 255>>, <<10, 0, 0, 255>> >>
    /\ found_idx = 1

----------------------------------------------------------------------------
(* Properties of the pending error map *)

Diffusing == pc = "dither" /\ dither \in {"FloydSteinberg", "Atkinson"}

\* the pending errors but the one of the pixel of the step, which it takes
Pending == [k \in (DOMAIN errors) \ {<<ScanX, ScanY>>} |-> errors[k]]

\* C19: throughout a Floyd-Steinberg or Atkinson pass every key of the error
\* map is a coordinate of the raster; and a step on a pixel of the first column
\* adds nothing for its (x - 1, y + 1) neighbour: what it adds is the shares of
\* its other neighbours inside the raster, and no accumulator of the last
\* column changes.
ErrorsStayInside ==
    [][ /\ Diffusing' => \A k \in DOMAIN errors' : Inside(k[1], k[2])
        /\ (DiffusedBy("FloydSteinberg") /\ ScanX = 0) =>
              \A ch \in 1..3 :
                  Propagated(ch) =
                      ( Share(1, ScanY, 7) + Share(0, ScanY + 1, 5) + Share(1, ScanY + 1, 1) )
                          * QuantError(ch)
        /\ (DiffusedBy("Atkinson") /\ ScanX = 0) =>
              \A ch \in 1..3 :
                  Propagated(ch) =
                      ( Share(1, ScanY, 2) + Share(2, ScanY, 2) + Share(0, ScanY + 1, 2)
                          + Share(1, ScanY + 1, 2) + Share(0, ScanY + 2, 2) )
                          * QuantError(ch)
        /\ (Diffusing /\ pos' = pos + 1 /\ ~is_transparent(ScanPixel) /\ ScanX = 0) =>
              \A k \in DOMAIN errors' :
                  (k[1] = Width - 1 /\ k[1] > 2) => (k \in DOMAIN Pending /\ errors'[k] = Pending[k])
      ]_vars

\* the first pixel of the second row has just left an error to its right and
\* below, while nothing is pending for the last pixel of the third row
ErrorsStayInsideWitness ==
    /\ Diffusing
    /\ pos = Width + 1
    /\ ~is_transparent(quantized[pos])
    /\ RGB(corrected) # RGB(new_color)
    /\ <<0, 2>> \in DOMAIN errors
    /\ errors[<<0, 2>>] # <<0, 0, 0>>
    /\ <<Width - 1, 2>> \notin DOMAIN errors

\* row-major position of a coordinate
ScanIndex(k) == k[2] * Width + k[1]

Unvisited(k) == ScanIndex(k) >= pos

InWindow(k) == ScanY <= k[2] /\ k[2] <= ScanY + 2

SkippedBy(modes) ==
    /\ pc = "dither"
    /\ dither \in modes
    /\ pos' = pos + 1
    /\ is_transparent(ScanPixel)

\* C21: in a Floyd-Steinberg or Atkinson pass a transparent pixel is left as
\* it is and the step that skips it changes no entry of the error map; the
\* step of an opaque pixel corrects it by the entry of its own coordinate
\* alone, changes no other pixel, and takes no entry of a transparent pixel's
\* coordinate out of the map: what was routed there is never added to a pixel.
TransparentApart ==
    [][ /\ SkippedBy({"FloydSteinberg", "Atkinson"}) =>
            /\ errors' = errors
            /\ result' = result
        /\ \A mode \in {"FloydSteinberg", "Atkinson"} :
             DiffusedBy(mode) =>
                /\ corrected' = Corrected(ScanPixel, TakeError(errors, <<ScanX, ScanY>>))
                /\ \A i \in 1..Len(result) : i # pos + 1 => result'[i] = result[i]
                /\ result'[pos + 1] = new_color'
                /\ \A k \in DOMAIN errors :
                      is_transparent(result[ScanIndex(k) + 1]) => k \in DOMAIN errors'
        /\ Diffusing' =>
             \A i \in 1..Len(result') :
                 is_transparent(quantized'[i]) => result'[i] = quantized'[i]
      ]_vars

\* an error is pending at the coordinate of a transparent pixel that the scan
\* has passed, and the pixel after it was corrected by nothing
TransparentApartWitness ==
    /\ Diffusing
    /\ pos = 3
    /\ is_transparent(result[2])
    /\ <<1, 0>> \in DOMAIN errors
    /\ errors[<<1, 0>>] # <<0, 0, 0>>
    /\ ~is_transparent(result[3])
    /\ corrected = quantized[3]

----------------------------------------------------------------------------
(* Properties of the exact-RGB cache *)

DitheredPixel(c) == GetPixel(dithered, c[1], c[2], target_width)

\* the cells the assigner looks up in the cache (lib.rs:486, 657)
LookedUp ==
    { c \in Cells : Eligible(DitheredPixel(c), remove_background, background_threshold) }

\* C22: in a returned result the RGB of every opaque pixel of the dithered
\* raster that is not removed as background is a key of the palette cache, so
\* no cell was filled by the linear scan.
CacheNeverMisses ==
    Returned => \A c \in LookedUp : RGB(DitheredPixel(c)) \in DOMAIN palette_cache

\* a returned result of an error-diffusion pass with background removal that
\* looked up two different colors
CacheNeverMissesWitness ==
    /\ Returned
    /\ remove_background
    /\ dither \in {"FloydSteinberg", "Atkinson", "Ordered"}
    /\ \E c, d \in LookedUp : RGB(DitheredPixel(c)) # RGB(DitheredPixel(d))

\* the id the fallback scan of the command gives a pixel (lib.rs:495-500, 666-671)
FallbackId(pixel) ==
    IF entry = "process_image"
    THEN PlainFallback(pixel, palette, colors)
    ELSE ThreadFallback(pixel, palette, color_id_map)

\* C23: in a returned result, for every color of the palette the id the cache
\* holds for its RGB is the id the fallback scan returns for a pixel of that
\* color.
FastPathAgrees ==
    Returned =>
        \A i \in 1..Len(palette) :
            RGB(palette[i]) \in DOMAIN palette_cache =>
                palette_cache[RGB(palette[i])] = FallbackId(palette[i])

----------------------------------------------------------------------------
(* Properties of dithering inside the pipeline *)

ErrorDiffusion == {"FloydSteinberg", "Atkinson"}

\* C24: inside the pipeline every quantization error of a Floyd-Steinberg or
\* Atkinson pass is zero, and for every input the pass returns, as mode none
\* does, and returns the raster it was given, which is what mode none returns;
\* the grid is computed from that raster and the palette alone.
DiffusionIsNoOp ==
    [][ /\ \A mode \in ErrorDiffusion :
             DiffusedBy(mode) => \A ch \in 1..3 : QuantError(ch) = 0
        /\ (Dithered' /\ dither' \in ErrorDiffusion) => dithered' = quantized'
        /\ (pc = "dither" /\ dither \in ErrorDiffusion) => pc' # "panicked"
      ]_vars

----------------------------------------------------------------------------
(* Properties of the empty cells *)

InputPixel(c) == GetPixel(rgba, c[1], c[2], target_width)

\* C25: in a returned result a cell is empty if and only if the pixel of the
\* resized input is transparent or, with remove_background, background by the
\* threshold; every other input pixel has a color id.
EmptyCellsMirrorInput ==
    Returned =>
        \A c \in Cells :
            Cell(c) = "" <=> ~Eligible(InputPixel(c), remove_background, background_threshold)

----------------------------------------------------------------------------
(* Properties of a license once activated *)

\* C26: when the stored status is Licensed, no start_trial, init_license or
\* get_license_status changes it; the only step that takes the status away
\* from Licensed is a deactivate_device that returns Ok.
LicenseNotDowngraded ==
    [][ load_license_state.status = "Licensed" =>
          /\ (StartTrial \/ InitLicense \/ GetLicenseStatus) =>
                load_license_state'.status = "Licensed"
          /\ load_license_state'.status # "Licensed" =>
                (DeactivateDevice /\ returned'[1].ok)
      ]_vars

\* C27: whenever activate_license returns Ok, the stored state has status
\* Licensed, source LicenseKey and the license key that was supplied (the one
\* key of LicenseKeys).
ActivateOkIsLicensed ==
    [][ (ActivateLicense /\ returned'[1].ok) =>
          /\ license_file' # Absent
          /\ license_file'[1].status = "Licensed"
          /\ license_file'[1].source = Some("LicenseKey")
          /\ license_file'[1].license_key \in { Some(key) : key \in LicenseKeys }
      ]_vars

(***************************************************************************)
(* Properties of a failed license operation                                *)
(***************************************************************************)

\* activate_license or deactivate_device takes a step that returns an error
FailedOperation ==
    /\ ActivateLicense \/ DeactivateDevice
    /\ ~returned'[1].ok

\* C28: a failed activate_license or deactivate_device leaves the stored
\* license state and the in-memory cache exactly what they were before the call.
FailureChangesNothing ==
    [][ FailedOperation =>
          /\ license_file' = license_file
          /\ LICENSE_STATE_CACHE' = LICENSE_STATE_CACHE
      ]_vars

\* C28, amended: a failed activate_license or deactivate_device leaves the
\* stored license state alone and leaves the state that load_license_state
\* yields alone; the cache is what it was, except that an empty cache now
\* holds the stored state.
FailureKeepsStoredState ==
    [][ FailedOperation =>
          /\ license_file' = license_file
          /\ load_license_state' = load_license_state
          /\ IF LICENSE_STATE_CACHE = Absent
             THEN LICENSE_STATE_CACHE' = license_file
             ELSE LICENSE_STATE_CACHE' = LICENSE_STATE_CACHE
      ]_vars

\* deactivate_device has failed at the server on an activated license
FailureKeepsStoredStateWitness ==
    /\ command = "deactivate_device"
    /\ returned = Err("Network error")
    /\ license_file # Absent
    /\ license_file[1].status = "Licensed"
    /\ LICENSE_STATE_CACHE = license_file

====
